---- MODULE Spec2Model ----
(***************************************************************************)
(* A model of subsystems of the repository:                                *)
(*   - the CDC replicator (replicators/src/noria_adapter.rs),              *)
(*   - the Consul-backed authority (noria/noria/src/consensus/consul.rs),  *)
(*   - the partial-replay miss protocol (spec section 4.6),                *)
(*   - the reader's handle (dataflow/src/backlog/multir.rs),               *)
(*   - the union view of it_works_basic (server/src/integration_serial.rs),*)
(*   - the Blender and its migrations (src/flow/mod.rs),                   *)
(*   - expression evaluation (dataflow/expression/src/lib.rs),             *)
(*   - the building of built-in calls (dataflow/expression/src/lib.rs),    *)
(*   - the resultset writers (msql-srv/src/resultset.rs),                  *)
(*   - leader discovery with overlapping reads and the controller state    *)
(*     of several deployments (noria/noria/src/consensus/consul.rs),       *)
(*   - a commit with column changes, step by step (src/flow/mod.rs).       *)
(* Each subsystem has its own specification over its own variables; the   *)
(* variables of the other subsystems stay at their initial values.        *)
(***************************************************************************)
EXTENDS Integers, Sequences, FiniteSets, TLC

VARIABLES
    \* ---- upstream database
    binlog,                 \* the upstream change log; event i is reported at offset i
    \* ---- Noria (durable across replicator restarts)
    noriaSchema,            \* the controller's schema replication offset
    noriaTables,            \* base table name -> its stored replication offset
    rows,                   \* table -> offset -> how many times that event's rows are in the table
    \* ---- NoriaAdapter (one replicator process)
    phase,                  \* "stopped" | "streaming" (main_loop is running)
    position,               \* main_loop's `position` (the connector's cursor)
    replication_offsets,    \* NoriaAdapter::replication_offsets
    mutator_map,            \* NoriaAdapter::mutator_map (cached table names)
    warned_missing_tables,  \* NoriaAdapter::warned_missing_tables
    \* ---- bookkeeping
    last,                   \* what the last replicator step did
    delivered,              \* the row-change events handed to handle_action for an existing
                            \* table at an offset after the table's stored offset
    restarts,               \* number of starts so far
    failures,               \* number of injected RPC failures so far
    timestamps,             \* Noria: the (table, offset) whose transaction timestamp arrived
    \* ---- Consul (the external key-value store)
    session,                \* authority -> "none" | "live" | "dead": its Consul session
    leaderKey,              \* the KV pair stored under CONTROLLER_KEY
    raftIndex,              \* Consul's modification index
    \* ---- ConsulAuthority (one per node)
    controller_index,       \* ConsulAuthorityInner::controller_index
    pc,                     \* authority -> where its become_leader call is
    ret,                    \* authority -> what its last become_leader returned
    reply,                  \* what the last other call of an authority returned
    \* ---- Consul: the worker keys and the key read_modify_write works on
    workerKeys,             \* session id -> the descriptor under WORKER_PREFIX/<id>
    stateKey,               \* the value stored under the read_modify_write path
    rmwPc,                  \* authority -> where its read_modify_write call is
    rmwVal,                 \* authority -> the value its try_read returned
    rmwDone,                \* read_modify_write calls that have returned
    \* ---- partial replay: the source of a replay path
    srcRows,                \* key -> the updates the source's full state holds, in order
    nextUpdate,             \* the next live update (updates are numbered as written)
    reqQ,                   \* ReplayRequest packets on their way to the source domain
    pathQ,                  \* packets on the path's edge from the source to the node, FIFO
    \* ---- partial replay: the partial node at the end of the path
    covered,                \* the keys the partial index covers
    nodeRows,               \* key -> the updates the node has applied, in order
    in_flight,              \* (Tag, key) -> its in-flight entry: present, waiters
    buffered,               \* key -> live updates held until the replay completes
    \* ---- lookups
    status,                 \* caller -> "idle" | "hit" | "waiting" | "fulfilled" | "cancelled"
    lookupKey,              \* caller -> the key of its lookup
    emitted,                \* (Tag, key) -> ReplayRequest packets emitted so far
    filled,                 \* (Tag, key) -> replays completed so far
    \* ---- the reader's handle (backlog::multir::Handle)
    written,                \* the keys whose rows the writer's side of the map holds
    metaW,                  \* the meta the writer has set for its next publish
    stored,                 \* the keys whose rows the published map holds
    meta,                   \* the meta of the published map
    getResult,              \* what the last meta_get_and returned
    tree,                   \* the positions the interval tree covers
    destroyed,              \* the write handle was dropped
    rangeResult,            \* what the last meta_get_range_and returned
    \* ---- the bases a and b, the union c and its reader (it_works_basic)
    tables,                 \* base -> key -> the second column of its row, or NoRow
    egressQ,                \* packets on their way to c's reader, FIFO
    cqFilled,               \* the keys c's partial reader holds
    cqRows,                 \* key -> the rows c's reader holds for it, as a bag
    cqWaiting,              \* the key of the blocking lookup that missed, or NoKeyYet
    cqResult,               \* what the last lookup of c returned
    base_table_lookup_requests, \* the counter BASE_TABLE_LOOKUP_REQUESTS
    \* ---- the Blender (flow::Blender) and its one Migration
    ingredients,            \* Blender::ingredients: the nodes, by NodeIndex; node 1 is the source
    edges,                  \* Blender::ingredients: the edges, as (parent, child)
    materialized,           \* the edges whose weight is true
    ndomains,               \* Blender::ndomains
    domains,                \* Blender::domains: the domains that were booted
    domainFields,           \* node -> the copy its domain holds (Node::take)
    mig,                    \* the Migration in effect, or NoMigration
    migOp,                  \* the last operation on the Blender or its Migration
    migrations,             \* how many migrations were started
    \* ---- a projection evaluating an expression (dataflow_expression::Expression)
    expression,             \* the Expression
    record,                 \* the source record
    evaluated,              \* what eval returned, or NotEvaluated
    \* ---- the query compiler building a call (BuiltinFunction::from_name_and_args)
    fname,                  \* the function's name
    fargs,                  \* the arguments it was called with
    built,                  \* what from_name_and_args returned, or NotBuilt
    \* ---- one query answered through a QueryResultWriter (msql-srv/src/resultset.rs)
    wphase,                 \* what the handler holds: "new", "query" (a QueryResultWriter),
                            \* "rows" (a RowWriter) or "closed"
    is_bin,                 \* QueryResultWriter.is_bin: the binary protocol
    last_end,               \* QueryResultWriter.last_end
    columns,                \* RowWriter.columns: how many columns were declared
    col,                    \* RowWriter.col
    last_status_flags,      \* RowWriter.last_status_flags
    wire,                   \* the packets written to the client
    produced,               \* the resultsets finished so far, by their finalizer
    wop,                    \* the last method called
    wret,                   \* what it returned
    \* ---- concurrent try_get_leader calls on one authority (consensus/consul.rs)
    pendingGets,            \* per authority, the calls whose consul.get was answered and
                            \* whose answer is not handled yet
    reported,               \* per authority, the key versions reported as NewLeader
    \* ---- the controller state of several deployments in one Consul (consensus/consul.rs)
    store,                  \* Consul's store: the value under each key that exists
    rmwCall,                \* per deployment, the read_modify_write call one of its
                            \* authorities is in
    callRet,                \* per deployment, what the last call returned
    lastWritten,            \* per deployment, the state update_controller_state wrote last
    readRet,                \* the last answer of try_read(STATE_KEY)
    \* ---- one commit with column changes, step by step (src/flow/mod.rs)
    cadded,                 \* Migration::added: the nodes this migration added
    baseFields,             \* base -> how many columns the Blender's copy has
    changes,                \* Migration::columns: the changes requested, in order
    commitPc,               \* where commit is
    nextChange,             \* the index in Migration::columns commit's loop is at
    booted,                 \* Blender::domains: the domains that were booted
    inbox,                  \* domain -> the packets sent to it and not handled yet
    ackQ,                   \* domain -> the acks it sent that commit has not taken
    applied,                \* domain -> the column changes it handled, in order
    commitLog               \* what commit did, in order

replVars == <<binlog, noriaSchema, noriaTables, rows, phase, position,
              replication_offsets, mutator_map, warned_missing_tables,
              last, delivered, restarts, failures, timestamps>>

leaderVars == <<session, leaderKey, raftIndex, controller_index, pc, ret>>

rmwVars == <<stateKey, rmwPc, rmwVal, rmwDone>>

consulVars == <<leaderVars, reply, workerKeys, rmwVars>>

replayVars == <<srcRows, nextUpdate, reqQ, pathQ, covered, nodeRows, in_flight,
                buffered, status, lookupKey, emitted, filled>>

readerVars == <<written, metaW, stored, meta, tree, destroyed, getResult, rangeResult>>

viewVars == <<tables, egressQ, cqFilled, cqRows, cqWaiting, cqResult,
              base_table_lookup_requests>>

flowVars == <<ingredients, edges, materialized, ndomains, domains, domainFields, mig, migOp,
             migrations>>

exprVars == <<expression, record, evaluated>>

buildVars == <<fname, fargs, built>>

writerVars == <<wphase, is_bin, last_end, columns, col, last_status_flags, wire, produced,
               wop, wret>>

raceVars == <<pendingGets, reported>>

stateVars == <<store, rmwCall, callRet, lastWritten, readRet>>

commitVars == <<cadded, baseFields, changes, commitPc, nextChange, booted, inbox, ackQ,
               applied, commitLog>>

vars == <<replVars, consulVars, replayVars, readerVars, viewVars, flowVars, exprVars, buildVars, writerVars, raceVars, stateVars, commitVars>>

----------------------------------------------------------------------------
(* Bounds                                                                   *)

MaxPos == 3          \* length of the upstream log
MaxRestarts == 3     \* how many times the replicator is started
MaxFailures == 1     \* how many RPCs fail
MaxIndex == 5        \* how many writes Consul takes
MaxUpdates == 1      \* how many live updates are written at the source
MaxReplays == 2      \* how many replays of one key are requested
MaxMeta == 1         \* how many times the writer sets a new meta
MaxRmw == 6          \* how many read_modify_write calls are made

----------------------------------------------------------------------------
(* Replication offsets                                                      *)

\* Option::None of an Option<ReplicationOffset>
None == -1

Tables == {"t1", "t2"}
\* tables that exist upstream before the log starts
InitialTables == {"t1"}

Pos == 1..MaxPos
Offsets == 0..MaxPos

SetMax(S) == CHOOSE x \in S : \A y \in S : y <= x
SetMin(S) == CHOOSE x \in S : \A y \in S : x <= y

\* every offset held by a ReplicationOffsets value, None included
AllOffsets(ro) == {ro.schema} \cup {ro.tables[t] : t \in DOMAIN ro.tables}

\* ReplicationOffsets::max_offset: None unless the schema and every table have an
\* offset, and then the largest of them
max_offset(ro) ==
    IF None \in AllOffsets(ro) THEN None ELSE SetMax(AllOffsets(ro))

\* ReplicationOffsets::min_present_offset: the smallest offset that is present
min_present_offset(ro) ==
    IF AllOffsets(ro) \ {None} = {} THEN None ELSE SetMin(AllOffsets(ro) \ {None})

\* ReplicationOffsets::set_offset: the schema and every known table are set to pos
set_offset(ro, pos) ==
    [schema |-> pos, tables |-> [t \in DOMAIN ro.tables |-> pos]]

\* ControllerHandle::replication_offsets: what the controller reports
ReportedOffsets == [schema |-> noriaSchema, tables |-> noriaTables]

\* tables.insert(table, Some(pos))
InsertTable(ro, table, pos) ==
    [ro EXCEPT !.tables =
        [t \in (DOMAIN ro.tables) \cup {table} |->
            IF t = table THEN pos ELSE ro.tables[t]]]

----------------------------------------------------------------------------
(* Upstream                                                                 *)

\* a row-change event with `txid: None`
TableEvent(t) == [kind |-> "TableAction", table |-> t, txid |-> FALSE]
\* a row-change event with `txid: Some(_)`
TxTableEvent(t) == [kind |-> "TableAction", table |-> t, txid |-> TRUE]
SchemaEvent(t) == [kind |-> "SchemaChange", table |-> t, txid |-> FALSE]
LogEvent == [kind |-> "LogPosition", table |-> "-", txid |-> FALSE]

\* the tables that exist upstream at offset p ("-" is a DDL that creates none)
UpstreamTables(p) ==
    InitialTables \cup
    {binlog[i].table : i \in {j \in 1..Len(binlog) :
                                  j <= p /\ binlog[j].kind = "SchemaChange"
                                         /\ binlog[j].table # "-"}}

\* the offsets of the row events of table t up to offset p
RowEventsUpTo(t, p) ==
    {i \in 1..Len(binlog) :
        i <= p /\ binlog[i].kind = "TableAction" /\ binlog[i].table = t}

\* the upstream database commits one more event
UpstreamWrite ==
    /\ Len(binlog) < MaxPos
    /\ \E e \in {TableEvent(t) : t \in UpstreamTables(Len(binlog))}
              \cup {TxTableEvent(t) : t \in UpstreamTables(Len(binlog))}
              \cup {SchemaEvent(t) : t \in (Tables \ UpstreamTables(Len(binlog))) \cup {"-"}}
              \cup {LogEvent} :
          binlog' = Append(binlog, e)
    /\ UNCHANGED <<noriaSchema, noriaTables, rows, phase, position,
                   replication_offsets, mutator_map, warned_missing_tables,
                   last, delivered, restarts, failures, timestamps>>

----------------------------------------------------------------------------
(* NoriaAdapter::handle_action                                              *)

\* a ReplicationOffsets value with no offset at all
NoOffsets == [schema |-> None, tables |-> <<>>]

Step(op, kind, table, pos, off, outcome) ==
    [op |-> op, kind |-> kind, table |-> table, pos |-> pos, off |-> off,
     schema |-> replication_offsets.schema, outcome |-> outcome, ro |-> NoOffsets,
     txid |-> FALSE, batch |-> <<>>]

\* the stored offset handle_action compares a SchemaChange with
SchemaOffsetOf(ro) == ro.schema

\* the stored offset handle_action compares a TableAction with:
\* tables.get(&table) is Some(Some(offset)), else None
TableOffsetOf(ro, table) ==
    IF table \in DOMAIN ro.tables THEN ro.tables[table] ELSE None

\* the schema fence left out
SchemaChangeSkipped_NoFence(ro, pos) == FALSE

\* `pos < *schema_offset`
SchemaChangeSkipped(ro, pos) ==
    SchemaOffsetOf(ro) # None /\ pos < SchemaOffsetOf(ro)

\* `pos < *table_offset`
TableActionSkipped(ro, table, pos) ==
    TableOffsetOf(ro, table) # None /\ pos < TableOffsetOf(ro, table)

\* an RPC to Noria fails with a recoverable error
MayFail == failures < MaxFailures

\* extend_recipe_with_offset(ddl, Some(pos)): the DDL creates `table` unless it
\* exists; nothing is done again for an offset the recipe already holds
ExtendRecipe(table, pos) ==
    IF noriaSchema # None /\ pos <= noriaSchema
    THEN UNCHANGED <<noriaSchema, noriaTables>>
    ELSE /\ noriaSchema' = pos
         /\ noriaTables' =
              IF table = "-" \/ table \in DOMAIN noriaTables
              THEN noriaTables
              ELSE [t \in (DOMAIN noriaTables) \cup {table} |->
                      IF t = table THEN None ELSE noriaTables[t]]

\* ReplicationAction::SchemaChange
HandleSchemaChange(table, pos) ==
    LET ro == replication_offsets IN
    \/ /\ SchemaChangeSkipped(ro, pos)
       /\ last' = Step("handle", "SchemaChange", table, pos, SchemaOffsetOf(ro), "skipped")
       /\ UNCHANGED <<noriaSchema, noriaTables, rows, replication_offsets,
                      mutator_map, warned_missing_tables, failures>>
    \/ /\ ~SchemaChangeSkipped(ro, pos)
       /\ ExtendRecipe(table, pos)
       /\ replication_offsets' = [ro EXCEPT !.schema = pos]
       /\ mutator_map' = {}
       /\ last' = Step("handle", "SchemaChange", table, pos, SchemaOffsetOf(ro), "applied")
       /\ UNCHANGED <<rows, warned_missing_tables, failures>>
    \/ \* extend_recipe_with_offset fails: "failed" is an error main_loop logs,
       \* "fatal" is RecipeInvariantViolated
       /\ ~SchemaChangeSkipped(ro, pos)
       /\ MayFail
       /\ failures' = failures + 1
       /\ \E outcome \in {"failed", "fatal"} :
            last' = Step("handle", "SchemaChange", table, pos, SchemaOffsetOf(ro), outcome)
       /\ UNCHANGED <<noriaSchema, noriaTables, rows, replication_offsets,
                      mutator_map, warned_missing_tables>>

\* TableOperation::SetReplicationOffset(pos)
SetReplicationOffset(pos) == [op |-> "SetReplicationOffset", pos |-> pos]

\* the event's row operations, sent as they are
RowOps(pos) == [op |-> "rows", pos |-> pos]

\* the batch without the offset
Batch_NoOffset(pos) == <<RowOps(pos)>>

\* `actions.push(TableOperation::SetReplicationOffset(pos.clone()))`
Batch(pos) == <<RowOps(pos), SetReplicationOffset(pos)>>

\* the offset a batch leaves in its table: that of its last SetReplicationOffset
RECURSIVE OffsetAfter(_, _)
OffsetAfter(batch, off) ==
    IF batch = <<>> THEN off
    ELSE OffsetAfter(Tail(batch),
                     IF Head(batch).op = "SetReplicationOffset" THEN Head(batch).pos ELSE off)

\* table_mutator.perform_all(actions): the base table takes the batch as one
PerformAll(table, pos) ==
    /\ rows' = [rows EXCEPT ![table][pos] =
                  @ + Cardinality({i \in DOMAIN Batch(pos) : Batch(pos)[i].op = "rows"})]
    /\ noriaTables' = [noriaTables EXCEPT ![table] = OffsetAfter(Batch(pos), @)]

\* table_mutator.update_timestamp(timestamp), called when the event has a txid
UpdateTimestamp(table, pos, txid) ==
    timestamps' = IF txid THEN timestamps \cup {<<table, pos>>} ELSE timestamps

\* what handle_action did with a row-change event
TableStep(table, pos, off, txid, batch, outcome) ==
    [Step("handle", "TableAction", table, pos, off, outcome)
        EXCEPT !.txid = txid, !.batch = batch]

\* ReplicationAction::TableAction
HandleTableAction(table, pos, txid) ==
    LET ro == replication_offsets
        off == TableOffsetOf(ro, table)
        known == table \in mutator_map \/ table \in DOMAIN noriaTables
    IN
    \/ /\ TableActionSkipped(ro, table, pos)
       /\ last' = TableStep(table, pos, off, txid, <<>>, "skipped")
       /\ UNCHANGED <<noriaSchema, noriaTables, rows, replication_offsets,
                      mutator_map, warned_missing_tables, failures, timestamps>>
    \/ \* mutator_for_table returned None
       /\ ~TableActionSkipped(ro, table, pos)
       /\ ~known
       /\ warned_missing_tables' = warned_missing_tables \cup {table}
       /\ last' = TableStep(table, pos, off, txid, <<>>, "discarded")
       /\ UNCHANGED <<noriaSchema, noriaTables, rows, replication_offsets,
                      mutator_map, failures, timestamps>>
    \/ \* the batch and (when there is a txid) the timestamp are sent
       /\ ~TableActionSkipped(ro, table, pos)
       /\ known
       /\ mutator_map' = mutator_map \cup {table}
       /\ PerformAll(table, pos)
       /\ UpdateTimestamp(table, pos, txid)
       /\ replication_offsets' = InsertTable(ro, table, pos)
       /\ last' = TableStep(table, pos, off, txid, Batch(pos), "applied")
       /\ UNCHANGED <<noriaSchema, warned_missing_tables, failures>>
    \/ \* perform_all fails
       /\ ~TableActionSkipped(ro, table, pos)
       /\ known
       /\ MayFail
       /\ failures' = failures + 1
       /\ mutator_map' = mutator_map \cup {table}
       /\ last' = TableStep(table, pos, off, txid, Batch(pos), "failed")
       /\ UNCHANGED <<noriaSchema, noriaTables, rows, replication_offsets,
                      warned_missing_tables, timestamps>>
    \/ \* perform_all succeeds, update_timestamp fails
       /\ ~TableActionSkipped(ro, table, pos)
       /\ known
       /\ txid
       /\ MayFail
       /\ failures' = failures + 1
       /\ mutator_map' = mutator_map \cup {table}
       /\ PerformAll(table, pos)
       /\ last' = TableStep(table, pos, off, txid, Batch(pos), "applied_then_failed")
       /\ UNCHANGED <<noriaSchema, replication_offsets, warned_missing_tables, timestamps>>

\* ReplicationAction::LogPosition
HandleLogPosition(pos) ==
    LET ro == replication_offsets IN
    \/ /\ noriaSchema' = pos
       /\ replication_offsets' = set_offset(ro, pos)
       /\ last' = Step("handle", "LogPosition", "-", pos, SchemaOffsetOf(ro), "applied")
       /\ UNCHANGED <<noriaTables, rows, mutator_map, warned_missing_tables, failures>>
    \/ /\ MayFail
       /\ failures' = failures + 1
       /\ last' = Step("handle", "LogPosition", "-", pos, SchemaOffsetOf(ro), "failed")
       /\ UNCHANGED <<noriaSchema, noriaTables, rows, replication_offsets,
                      mutator_map, warned_missing_tables>>

\* the connector delivers a row-change event of an existing table at an offset
\* after the offset stored for that table
Deliverable(table, pos) ==
    /\ table \in DOMAIN noriaTables
    /\ noriaTables[table] < pos

handle_action(action, pos) ==
    \/ /\ action.kind = "SchemaChange"
       /\ HandleSchemaChange(action.table, pos)
       /\ UNCHANGED <<delivered, timestamps>>
    \/ /\ action.kind = "TableAction"
       /\ HandleTableAction(action.table, pos, action.txid)
       /\ delivered' = IF Deliverable(action.table, pos)
                       THEN delivered \cup {<<action.table, pos>>}
                       ELSE delivered
    \/ /\ action.kind = "LogPosition"
       /\ HandleLogPosition(pos)
       /\ UNCHANGED <<delivered, timestamps>>

----------------------------------------------------------------------------
(* NoriaAdapter::main_loop and the connector                                *)

\* Connector::next_action: the next upstream event after the cursor
HasNextAction == position < Len(binlog)

\* one iteration of main_loop
MainLoopStep ==
    /\ phase = "streaming"
    /\ HasNextAction
    /\ position' = position + 1
    /\ handle_action(binlog[position + 1], position + 1)
    /\ phase' = IF last'.outcome = "fatal" THEN "stopped" ELSE "streaming"
    /\ UNCHANGED <<binlog, restarts>>

\* next_action returns an error: main_loop returns it and the replicator ends
ConnectorError ==
    /\ phase = "streaming"
    /\ phase' = "stopped"
    /\ last' = Step("stop", "-", "-", position, None, "stopped")
    /\ UNCHANGED <<binlog, noriaSchema, noriaTables, rows, position,
                   replication_offsets, mutator_map, warned_missing_tables,
                   delivered, restarts, failures, timestamps>>

----------------------------------------------------------------------------
(* NoriaAdapter::start_inner_mysql                                          *)

\* the tables a snapshot has to copy: the upstream tables with no stored offset
MissingTables(curr) ==
    {t \in UpstreamTables(curr) :
        t \notin DOMAIN noriaTables \/ noriaTables[t] = None}

\* MySqlReplicator::snapshot_to_noria copying the tables S at offset curr
SnapshotTables(S, curr) ==
    /\ noriaTables' = [t \in (DOMAIN noriaTables) \cup S |->
                         IF t \in S THEN curr ELSE noriaTables[t]]
    /\ rows' = [t \in Tables |->
                  IF t \in S
                  THEN [p \in Pos |-> IF p \in RowEventsUpTo(t, curr) THEN 1 ELSE 0]
                  ELSE rows[t]]

\* the snapshot taken only when no offset at all is stored
NeedsSnapshot_NoOffsetAtAll(ro) == min_present_offset(ro) = None

\* `match replication_offsets.max_offset()? { None => ...snapshot... }`
NeedsSnapshot(ro) == max_offset(ro) = None

\* the binlog position start_inner_mysql connects at; curr is the snapshot's
\* offset, None when the snapshot failed
StartPosition(ro, curr) ==
    IF NeedsSnapshot(ro)
    THEN IF min_present_offset(ro) # None THEN min_present_offset(ro) ELSE curr
    ELSE max_offset(ro)

\* the adapter is built and main_loop entered at pos
EnterMainLoop(ro, pos) ==
    /\ phase' = "streaming"
    /\ position' = pos
    /\ replication_offsets' = ro
    /\ mutator_map' = {}
    /\ warned_missing_tables' = {}

StartStep(kind, pos, ro, outcome) ==
    [Step("start", kind, "-", pos, min_present_offset(ro), outcome)
        EXCEPT !.ro = ro, !.schema = ro.schema]

start_inner_mysql ==
    LET ro == ReportedOffsets
        curr == Len(binlog)
    IN
    /\ phase = "stopped"
    /\ restarts < MaxRestarts
    /\ restarts' = restarts + 1
    /\ UNCHANGED <<binlog, delivered, timestamps>>
    /\ \/ \* every offset is present: no snapshot
          /\ ~NeedsSnapshot(ro)
          /\ EnterMainLoop(ro, StartPosition(ro, None))
          /\ last' = StartStep("no_snapshot", StartPosition(ro, None), ro, "streaming")
          /\ UNCHANGED <<noriaSchema, noriaTables, rows, failures>>
       \/ \* the snapshot succeeds
          /\ NeedsSnapshot(ro)
          /\ SnapshotTables(MissingTables(curr), curr)
          /\ noriaSchema' = IF noriaSchema = None THEN curr ELSE noriaSchema
          /\ EnterMainLoop(ro, StartPosition(ro, curr))
          /\ last' = StartStep("snapshot", StartPosition(ro, curr), ro, "streaming")
          /\ UNCHANGED failures
       \/ \* the snapshot fails after copying only some tables
          /\ NeedsSnapshot(ro)
          /\ MayFail
          /\ failures' = failures + 1
          /\ \E S \in SUBSET MissingTables(curr) :
                /\ S # MissingTables(curr) \/ S = {}
                /\ SnapshotTables(S, curr)
          /\ UNCHANGED noriaSchema
          /\ IF StartPosition(ro, None) # None
             THEN /\ EnterMainLoop(ro, StartPosition(ro, None))
                  /\ last' = StartStep("snapshot_failed", StartPosition(ro, None), ro, "streaming")
             ELSE /\ last' = StartStep("snapshot_failed", None, ro, "error")
                  /\ UNCHANGED <<phase, position, replication_offsets,
                                 mutator_map, warned_missing_tables>>

----------------------------------------------------------------------------
(* Consul: sessions and the leader key                                      *)

Authorities == {"a1", "a2"}

\* the payload an authority submits (a LeaderPayload with its own nonce)
PayloadOf(a) == a

\* no KV pair is stored under the key
NoKey == [exists |-> FALSE, value |-> "", holders |-> {}, index |-> 0]

\* no KV pair is stored under a worker's key
NoWorker == ""

\* the WorkerDescriptors a node may register
Descriptors == {"w1", "w2"}

\* the lock test left out: the pair is written as by KV::put
LockFree_Put(kv, s) == TRUE

\* KV::acquire decides by the lock: it is granted when no other session holds it
LockFree(kv, s) == kv.holders \subseteq {s}

\* the lock is taken but the value of the request is not stored
Acquired_NoValue(kv, s, value) ==
    [exists |-> TRUE, value |-> kv.value, holders |-> {s}, index |-> raftIndex + 1]

\* the pair KV::acquire writes for session s
Acquired(kv, s, value) ==
    [exists |-> TRUE, value |-> value,
     holders |-> IF LockFree(kv, s) THEN {s} ELSE kv.holders \cup {s},
     index |-> raftIndex + 1]

\* a release that leaves the lock with its holder
Released_StillHeld(kv, s, value) == [kv EXCEPT !.index = raftIndex + 1]

\* the pair KV::release leaves: the session is cleared, the pair's value written
Released(kv, s, value) ==
    [kv EXCEPT !.holders = kv.holders \ {s}, !.value = value, !.index = raftIndex + 1]

\* the release behaviour "release": the lock is dropped, the pair stays
Invalidated_Release(kv, s) == [kv EXCEPT !.holders = kv.holders \ {s}]

\* what the end of session s leaves of a pair: SESSION_RELEASE_BEHAVIOR is
\* "delete", the pair it holds is deleted
Invalidated(kv, s) == IF s \in kv.holders THEN NoKey ELSE kv

\* a session ends (Session::destroy in drop, or its TTL expires): with the
\* release behaviour "delete" the keys it holds are deleted
SessionDeath(a) ==
    /\ session[a] = "live"
    /\ session' = [session EXCEPT ![a] = "dead"]
    /\ leaderKey' = Invalidated(leaderKey, a)
    /\ raftIndex' = IF a \in leaderKey.holders THEN raftIndex + 1 ELSE raftIndex
    /\ workerKeys' = [workerKeys EXCEPT ![a] = NoWorker]
    /\ UNCHANGED <<controller_index, pc, ret, reply, rmwVars>>

----------------------------------------------------------------------------
(* ConsulAuthority                                                          *)

\* init -> create_session
init(a) ==
    /\ session[a] = "none"
    /\ session' = [session EXCEPT ![a] = "live"]
    /\ UNCHANGED <<leaderKey, raftIndex, controller_index, pc, ret>>
    /\ UNCHANGED <<reply, workerKeys, rmwVars>>

\* the index update_controller_index_from_pair stores
IndexOfPair(kv) == kv.index

\* become_leader up to the answer of consul.acquire
BecomeLeaderAcquire(a) ==
    /\ pc[a] = "idle"
    /\ session[a] # "none"
    /\ \/ \* the session is gone: Consul answers with an error
          /\ session[a] = "dead"
          /\ ret' = [ret EXCEPT ![a] = "Err"]
          /\ UNCHANGED <<leaderKey, raftIndex, pc>>
       \/ \* Ok((true, _))
          /\ session[a] = "live"
          /\ LockFree(leaderKey, a)
          /\ raftIndex < MaxIndex
          /\ leaderKey' = Acquired(leaderKey, a, PayloadOf(a))
          /\ raftIndex' = raftIndex + 1
          /\ pc' = [pc EXCEPT ![a] = "acquired"]
          /\ ret' = [ret EXCEPT ![a] = "-"]
       \/ \* Ok((false, _))
          /\ session[a] = "live"
          /\ ~LockFree(leaderKey, a)
          /\ ret' = [ret EXCEPT ![a] = "None"]
          /\ UNCHANGED <<leaderKey, raftIndex, pc>>
    /\ UNCHANGED <<session, controller_index>>
    /\ UNCHANGED <<reply, workerKeys, rmwVars>>

\* become_leader after Ok((true, _)): the get that updates the index, and
\* `Ok(Some(payload))`
BecomeLeaderReturn(a) ==
    /\ pc[a] = "acquired"
    /\ controller_index' =
         IF leaderKey.exists /\ leaderKey.holders = {a}
         THEN [controller_index EXCEPT ![a] = IndexOfPair(leaderKey)]
         ELSE controller_index
    /\ pc' = [pc EXCEPT ![a] = "idle"]
    /\ ret' = [ret EXCEPT ![a] = "Some"]
    /\ UNCHANGED <<session, leaderKey, raftIndex>>
    /\ UNCHANGED <<reply, workerKeys, rmwVars>>

\* the answer of the last call other than become_leader
NoReply == [by |-> "-", op |-> "-", result |-> "-", payload |-> "", ids |-> {}, data |-> {}]

Reply(a, op, result, payload) ==
    [by |-> a, op |-> op, result |-> result, payload |-> payload, ids |-> {}, data |-> {}]

\* surrender_leadership: consul.release with this authority's session; Consul
\* releases the lock only for the session that holds it
surrender_leadership(a) ==
    /\ session[a] # "none"
    /\ IF session[a] = "live" /\ a \in leaderKey.holders
       THEN /\ raftIndex < MaxIndex
            /\ leaderKey' = Released(leaderKey, a, "")
            /\ raftIndex' = raftIndex + 1
       ELSE UNCHANGED <<leaderKey, raftIndex>>
    /\ reply' = Reply(a, "surrender_leadership", "Ok", "")
    /\ UNCHANGED <<session, controller_index, pc, ret, workerKeys, rmwVars>>

\* the bytes parse as the value written by become_leader (serde_json::from_slice
\* and from_str): the empty value KV::release leaves does not
Parses(value) == value # ""

\* try_read(CONTROLLER_KEY): Ok(None) without a pair, Ok(Some(value)) or the
\* parse error
try_read(kv) ==
    IF ~kv.exists THEN "None"
    ELSE IF Parses(kv.value) THEN "Some" ELSE "Err"

\* get_leader: loops on try_read until it is not None
get_leader(a) ==
    /\ try_read(leaderKey) # "None"
    /\ reply' = IF try_read(leaderKey) = "Some"
                THEN Reply(a, "get_leader", "Ok", leaderKey.value)
                ELSE Reply(a, "get_leader", "Err", "")
    /\ UNCHANGED <<leaderVars, workerKeys, rmwVars>>

\* is_new_index
is_new_index(current_index, kv) ==
    IF current_index = None THEN TRUE ELSE kv.index > current_index

\* try_get_leader
try_get_leader(a) ==
    /\ IF leaderKey.exists /\ is_new_index(controller_index[a], leaderKey)
       THEN /\ controller_index' = [controller_index EXCEPT ![a] = IndexOfPair(leaderKey)]
            /\ reply' = IF Parses(leaderKey.value)
                        THEN Reply(a, "try_get_leader", "NewLeader", leaderKey.value)
                        ELSE Reply(a, "try_get_leader", "Err", "")
       ELSE /\ UNCHANGED controller_index
            /\ reply' = IF leaderKey.exists
                        THEN Reply(a, "try_get_leader", "Unchanged", "")
                        ELSE Reply(a, "try_get_leader", "NoLeader", "")
    /\ UNCHANGED <<session, leaderKey, raftIndex, pc, ret, workerKeys, rmwVars>>

----------------------------------------------------------------------------
(* ConsulAuthority: workers                                                 *)

\* the worker keys that exist under WORKER_PREFIX
WorkerIds == {w \in Authorities : workerKeys[w] # NoWorker}

\* register_worker: acquires workers/<session id> with the descriptor
register_worker(a, desc) ==
    /\ session[a] # "none"
    /\ IF session[a] = "live"
       THEN /\ workerKeys' = [workerKeys EXCEPT ![a] = desc]
            /\ reply' = Reply(a, "register_worker", "Some", a)
       ELSE /\ UNCHANGED workerKeys
            /\ reply' = Reply(a, "register_worker", "Err", "")
    /\ UNCHANGED <<leaderVars, rmwVars>>

\* a renewal that always succeeds
Renewed_Always(id) == TRUE

\* Session::renew succeeds for a session that exists
Renewed(id) == session[id] = "live"

\* worker_heartbeat
worker_heartbeat(a, id) ==
    /\ reply' = IF Renewed(id)
                THEN Reply(a, "worker_heartbeat", "Alive", id)
                ELSE Reply(a, "worker_heartbeat", "Failed", id)
    /\ UNCHANGED <<leaderVars, workerKeys, rmwVars>>

\* get_workers: the ids of the keys KV::list finds under WORKER_PREFIX
get_workers(a) ==
    /\ reply' = [Reply(a, "get_workers", "Ok", "") EXCEPT !.ids = WorkerIds]
    /\ UNCHANGED <<leaderVars, workerKeys, rmwVars>>

\* worker_data: the descriptor of each id whose key exists
worker_data(a, worker_ids) ==
    /\ reply' = [Reply(a, "worker_data", "Ok", "") EXCEPT
                   !.ids = worker_ids,
                   !.data = {<<w, workerKeys[w]>> : w \in worker_ids \cap WorkerIds}]
    /\ UNCHANGED <<leaderVars, workerKeys, rmwVars>>

----------------------------------------------------------------------------
(* ConsulAuthority: read_modify_write                                       *)

\* the caller's f: it counts the updates (None -> 1, v -> v + 1), always Ok
Increment(v) == IF v = None THEN 1 ELSE v + 1

\* read_modify_write up to the answer of try_read
RmwRead(a) ==
    /\ rmwPc[a] = "idle"
    /\ rmwDone + Cardinality({b \in Authorities : rmwPc[b] = "read"}) < MaxRmw
    /\ rmwVal' = [rmwVal EXCEPT ![a] = stateKey]
    /\ rmwPc' = [rmwPc EXCEPT ![a] = "read"]
    /\ UNCHANGED <<leaderVars, reply, workerKeys, stateKey, rmwDone>>

\* read_modify_write from f to its return: KV::put of f's result, Ok((true, _))
RmwPut(a) ==
    /\ rmwPc[a] = "read"
    /\ stateKey' = Increment(rmwVal[a])
    /\ rmwPc' = [rmwPc EXCEPT ![a] = "idle"]
    /\ rmwDone' = rmwDone + 1
    /\ UNCHANGED <<leaderVars, reply, workerKeys, rmwVal>>


----------------------------------------------------------------------------
(* Partial replay: one replay path from a fully materialized source to a    *)
(* partial node                                                             *)

\* the path's integer Tag
Tag == 1
Keys == {"k1", "k2"}
Callers == {"l1", "l2"}
Fingerprints == {Tag} \X Keys

NoEntry == [present |-> FALSE, waiters |-> {}]

Regular(k, u) == [type |-> "Regular", tag |-> 0, key |-> k, rows |-> <<u>>]
Replay(tag, k, rs) == [type |-> "Replay", tag |-> tag, key |-> k, rows |-> rs]
ReplayRequest(tag, k) == [tag |-> tag, key |-> k]

\* every miss starts a replay of its own
HasEntry_Never(fp) == FALSE

\* the in-flight table has an entry for the fingerprint
HasEntry(fp) == in_flight[fp].present

\* miss protocol, steps 2 and 3: the miss is recorded in the in-flight table;
\* onto an existing entry it is attached as a waiter, otherwise the entry is
\* made and a ReplayRequest is sent to the path's source domain
RecordMiss(c, k) ==
    LET fp == <<Tag, k>> IN
    IF HasEntry(fp)
    THEN /\ in_flight' = [in_flight EXCEPT ![fp].waiters = @ \cup {c}]
         /\ UNCHANGED <<reqQ, emitted>>
    ELSE /\ emitted[fp] < MaxReplays
         /\ in_flight' = [in_flight EXCEPT ![fp] = [present |-> TRUE, waiters |-> {c}]]
         /\ reqQ' = Append(reqQ, ReplayRequest(Tag, k))
         /\ emitted' = [emitted EXCEPT ![fp] = @ + 1]

\* lookup(block_on_miss = true): rows when the key is covered, NeedsReplay(k)
\* and a parked caller otherwise
lookup(c, k) ==
    /\ status[c] # "waiting"
    /\ lookupKey' = [lookupKey EXCEPT ![c] = k]
    /\ IF k \in covered
       THEN /\ status' = [status EXCEPT ![c] = "hit"]
            /\ UNCHANGED <<in_flight, reqQ, emitted>>
       ELSE /\ status' = [status EXCEPT ![c] = "waiting"]
            /\ RecordMiss(c, k)
    /\ UNCHANGED <<srcRows, nextUpdate, pathQ, covered, nodeRows, buffered, filled>>

\* the caller's context fires: the waiter is dropped
CancelLookup(c) ==
    /\ status[c] = "waiting"
    /\ status' = [status EXCEPT ![c] = "cancelled"]
    /\ in_flight' = [fp \in Fingerprints |->
                        [in_flight[fp] EXCEPT !.waiters = @ \ {c}]]
    /\ UNCHANGED <<srcRows, nextUpdate, reqQ, pathQ, covered, nodeRows, buffered,
                   lookupKey, emitted, filled>>

\* a live update of key k: the source applies it and forwards the delta
LiveUpdate(k) ==
    /\ nextUpdate <= MaxUpdates
    /\ srcRows' = [srcRows EXCEPT ![k] = Append(@, nextUpdate)]
    /\ pathQ' = Append(pathQ, Regular(k, nextUpdate))
    /\ nextUpdate' = nextUpdate + 1
    /\ UNCHANGED <<reqQ, covered, nodeRows, in_flight, buffered, status, lookupKey,
                   emitted, filled>>

\* miss protocol, step 4: the source domain scans its state for the requested
\* key and emits a Replay packet along the path
HandleReplayRequest ==
    /\ reqQ # <<>>
    /\ LET r == Head(reqQ) IN
           pathQ' = Append(pathQ, Replay(r.tag, r.key, srcRows[r.key]))
    /\ reqQ' = Tail(reqQ)
    /\ UNCHANGED <<srcRows, nextUpdate, covered, nodeRows, in_flight, buffered,
                   status, lookupKey, emitted, filled>>

\* a Regular packet at the partial node: applied to a covered key, held while
\* the key is being replayed, and of no interest for a key the node does not hold
HandleRegular(m) ==
    /\ IF m.key \in covered
       THEN /\ nodeRows' = [nodeRows EXCEPT ![m.key] = @ \o m.rows]
            /\ UNCHANGED buffered
       ELSE IF HasEntry(<<Tag, m.key>>)
       THEN /\ buffered' = [buffered EXCEPT ![m.key] = @ \o m.rows]
            /\ UNCHANGED nodeRows
       ELSE UNCHANGED <<nodeRows, buffered>>
    /\ UNCHANGED <<covered, in_flight, status, filled>>

\* miss protocol, step 5: at the terminal the rows are written, the key is
\* marked covered, the in-flight entry is cleared, the parked callers are
\* fulfilled and the buffered live updates are applied
HandleReplay(m) ==
    LET fp == <<m.tag, m.key>> IN
    /\ nodeRows' = [nodeRows EXCEPT ![m.key] = m.rows \o buffered[m.key]]
    /\ covered' = covered \cup {m.key}
    /\ status' = [c \in Callers |->
                    IF c \in in_flight[fp].waiters THEN "fulfilled" ELSE status[c]]
    /\ in_flight' = [in_flight EXCEPT ![fp] = NoEntry]
    /\ buffered' = [buffered EXCEPT ![m.key] = <<>>]
    /\ filled' = [filled EXCEPT ![fp] = @ + 1]

\* the node's domain takes the next packet of the path's edge
NodeReceive ==
    /\ pathQ # <<>>
    /\ pathQ' = Tail(pathQ)
    /\ IF Head(pathQ).type = "Replay"
       THEN HandleReplay(Head(pathQ))
       ELSE HandleRegular(Head(pathQ))
    /\ UNCHANGED <<srcRows, nextUpdate, reqQ, lookupKey, emitted>>

\* Eviction: the key is dropped from the partial index
Evict(k) ==
    /\ k \in covered
    /\ covered' = covered \ {k}
    /\ nodeRows' = [nodeRows EXCEPT ![k] = <<>>]
    /\ UNCHANGED <<srcRows, nextUpdate, reqQ, pathQ, in_flight, buffered, status,
                   lookupKey, emitted, filled>>

InitReplay ==
    /\ srcRows = [k \in Keys |-> <<>>]
    /\ nextUpdate = 1
    /\ reqQ = <<>>
    /\ pathQ = <<>>
    /\ covered = {}
    /\ nodeRows = [k \in Keys |-> <<>>]
    /\ in_flight = [fp \in Fingerprints |-> NoEntry]
    /\ buffered = [k \in Keys |-> <<>>]
    /\ status = [c \in Callers |-> "idle"]
    /\ lookupKey = [c \in Callers |-> "k1"]
    /\ emitted = [fp \in Fingerprints |-> 0]
    /\ filled = [fp \in Fingerprints |-> 0]

----------------------------------------------------------------------------
(* The authority's initial state                                            *)

InitConsul ==
    /\ session = [a \in Authorities |-> "none"]
    /\ leaderKey = NoKey
    /\ raftIndex = 0
    /\ controller_index = [a \in Authorities |-> None]
    /\ pc = [a \in Authorities |-> "idle"]
    /\ ret = [a \in Authorities |-> "-"]
    /\ reply = NoReply
    /\ workerKeys = [a \in Authorities |-> NoWorker]
    /\ stateKey = None
    /\ rmwPc = [a \in Authorities |-> "idle"]
    /\ rmwVal = [a \in Authorities |-> None]
    /\ rmwDone = 0

----------------------------------------------------------------------------
(* The reader's handle: an ordered map with the tree of covered intervals   *)

\* the keys a row can be stored under, in their order
KeySpace == {1, 2}

\* the greatest key
LastKey == CHOOSE k \in KeySpace : \A x \in KeySpace : x <= k

\* keys are ordered densely: position 2k stands for key k, the odd positions
\* for the keys strictly between two neighbours, below the first, above the last
Point(k) == 2 * k

\* the position above every key
TopPos == Point(LastKey) + 1

Positions == 1..TopPos

Unbounded == <<"Unbounded", 0>>
Included(k) == <<"Included", k>>
Excluded(k) == <<"Excluded", k>>
RangeBound == {Unbounded} \cup {Included(k) : k \in KeySpace} \cup {Excluded(k) : k \in KeySpace}

StartPos(b) ==
    CASE b[1] = "Unbounded" -> 1
      [] b[1] = "Included" -> Point(b[2])
      [] b[1] = "Excluded" -> Point(b[2]) + 1

EndPos(b) ==
    CASE b[1] = "Unbounded" -> TopPos
      [] b[1] = "Included" -> Point(b[2])
      [] b[1] = "Excluded" -> Point(b[2]) - 1

\* the positions inside (start_bound, end_bound)
Interval(range) == StartPos(range[1])..EndPos(range[2])

\* the ranges a caller may pass: BTreeMap::range panics on the others
Ranges == {r \in RangeBound \X RangeBound : StartPos(r[1]) <= EndPos(r[2])}

\* the maximal runs of consecutive positions of S from position p on, in
\* ascending order, each as the interval <<first, last>>
RECURSIVE Runs(_, _)
Runs(S, p) ==
    IF p > TopPos THEN <<>>
    ELSE IF p \notin S THEN Runs(S, p + 1)
    ELSE LET q == CHOOSE q \in p..TopPos :
                     /\ \A x \in p..q : x \in S
                     /\ (q + 1) \notin S
         IN  <<<<p, q>>>> \o Runs(S, q + 1)

\* only the stored keys of the range are looked for in the tree
get_interval_difference_KeysOnly(t, range) ==
    Runs({p \in Interval(range) \ t : p % 2 = 0}, 1)

\* IntervalTree::get_interval_difference: the intervals of the range the tree
\* does not cover
get_interval_difference(t, range) == Runs(Interval(range) \ t, 1)

\* the rows the writer stores under key k
Row(k) == <<k, k>>

\* map.range(range).map(then).collect(): the B-tree is walked in key order
\* from key k on
RECURSIVE MapRange(_, _, _)
MapRange(map, range, k) ==
    IF k > LastKey THEN <<>>
    ELSE IF k \in map /\ Point(k) \in Interval(range)
         THEN <<Row(k)>> \o MapRange(map, range, k + 1)
         ELSE MapRange(map, range, k + 1)

\* the meta the map is constructed with
InitMeta == -1

NoLookup ==
    [kind |-> "-", range |-> <<Unbounded, Unbounded>>, rows |-> <<>>, diff |-> <<>>,
     map |-> {}, mapMeta |-> InitMeta, meta |-> InitMeta]

NoGet == [kind |-> "-", key |-> 0, rows |-> <<>>, meta |-> InitMeta]

\* the reader is between h.enter() and h.meta() of a range lookup
Entered == rangeResult.kind = "Entered"

\* an insert that readers see at once
WriteInsert_Published(k) ==
    /\ ~destroyed
    /\ k \notin written
    /\ written' = written \cup {k}
    /\ stored' = stored \cup {k}
    /\ UNCHANGED <<metaW, meta, tree, destroyed, getResult, rangeResult>>

\* w.insert(k, row): applied to the writer's side only
WriteInsert(k) ==
    /\ ~destroyed
    /\ k \notin written
    /\ written' = written \cup {k}
    /\ UNCHANGED <<metaW, stored, meta, tree, destroyed, getResult, rangeResult>>

\* w.set_meta(m): the writer's metas are a growing offset
SetMeta ==
    /\ ~destroyed
    /\ metaW < InitMeta + MaxMeta
    /\ metaW' = metaW + 1
    /\ UNCHANGED <<written, stored, meta, tree, destroyed, getResult, rangeResult>>

\* w.publish(): the writer's side becomes the snapshot readers enter
Publish ==
    /\ ~destroyed
    /\ <<written, metaW>> # <<stored, meta>>
    /\ stored' = written
    /\ meta' = metaW
    /\ UNCHANGED <<written, metaW, tree, destroyed, getResult, rangeResult>>

\* t.insert(range): the range becomes covered
TreeInsert(range) ==
    /\ ~(Interval(range) \subseteq tree)
    /\ tree' = tree \cup Interval(range)
    /\ UNCHANGED <<written, metaW, stored, meta, destroyed, getResult, rangeResult>>

\* the write handle is dropped: h.enter() returns None from now on
DropWriter ==
    /\ ~destroyed
    /\ destroyed' = TRUE
    /\ UNCHANGED <<written, metaW, stored, meta, tree, getResult, rangeResult>>

\* Handle::meta_get_and: rows and meta are read through one guard
meta_get_and(k) ==
    /\ ~Entered
    /\ getResult' =
         IF destroyed
         THEN [kind |-> "None", key |-> k, rows |-> <<>>, meta |-> InitMeta]
         ELSE [kind |-> IF k \in stored THEN "Some" ELSE "Absent", key |-> k,
               rows |-> IF k \in stored THEN <<Row(k)>> ELSE <<>>, meta |-> meta]
    /\ UNCHANGED <<written, metaW, stored, meta, tree, destroyed, rangeResult>>

\* Handle::meta_get_range_and up to `let map = h.enter()?`: the miss, None, or
\* the guard of the snapshot entered
meta_get_range_and(range) ==
    LET diff == get_interval_difference(tree, range)
        res == [NoLookup EXCEPT !.range = range]
    IN
    /\ ~Entered
    /\ rangeResult' =
         IF diff = <<>>
         THEN IF destroyed
              THEN [res EXCEPT !.kind = "None"]
              ELSE [res EXCEPT !.kind = "Entered", !.map = stored, !.mapMeta = meta]
         ELSE [res EXCEPT !.kind = "Miss", !.diff = diff]
    /\ UNCHANGED <<written, metaW, stored, meta, tree, destroyed, getResult>>

\* Handle::meta_get_range_and from `let meta = h.meta()?` on: the meta is read
\* through the handle again, the rows through the guard entered before
RangeReturn ==
    /\ Entered
    /\ rangeResult' =
         IF destroyed
         THEN [rangeResult EXCEPT !.kind = "None"]
         ELSE [rangeResult EXCEPT
                 !.kind = "Rows",
                 !.rows = MapRange(rangeResult.map, rangeResult.range, 1),
                 !.meta = meta]
    /\ UNCHANGED <<written, metaW, stored, meta, tree, destroyed, getResult>>

InitReader ==
    /\ written = {}
    /\ metaW = InitMeta
    /\ stored = {}
    /\ meta = InitMeta
    /\ tree = {}
    /\ destroyed = FALSE
    /\ getResult = NoGet
    /\ rangeResult = NoLookup

----------------------------------------------------------------------------
(* The view c = union(a, b) of it_works_basic, read through a partial       *)
(* reader keyed by the first column.  The client is the test's: it looks c  *)
(* up once its writes have propagated, and a lookup blocks until it is      *)
(* answered.                                                                *)

MaxQueue == 2        \* how many packets are on their way to the reader

Bases == {"a", "b"}
Ids == {1, 2}
Seconds == {2, 4}
ViewRows == Ids \X Seconds
NoRow == 0
NoKeyYet == 0

\* Union::new(emits): the columns of each base's rows that c emits
emits == [t \in Bases |-> <<1, 2>>]

Union(t, r) == <<r[emits[t][1]], r[emits[t][2]]>>

\* maintain_anonymous(c, &[0]): the reader's key is the first column
KeyOf_SecondColumn(r) == r[2]

KeyOf(r) == r[1]

EmptyBag == [r \in ViewRows |-> 0]

Add(bag, r, n) ==
    IF r \in ViewRows
    THEN [bag EXCEPT ![r] = IF bag[r] + n < 0 THEN 0 ELSE bag[r] + n]
    ELSE bag

\* the rows of base t under key k, as c emits them
BaseLookup(t, k) ==
    IF tables[t][k] = NoRow THEN EmptyBag
    ELSE Add(EmptyBag, Union(t, <<k, tables[t][k]>>), 1)

WritePacket(sign, r) == [type |-> "Regular", sign |-> sign, row |-> r, key |-> NoKeyYet, bag |-> EmptyBag]

ReplayPacket(k, bag) == [type |-> "Replay", sign |-> 0, row |-> <<0, 0>>, key |-> k, bag |-> bag]

NoView == [key |-> NoKeyYet, rows |-> EmptyBag]

\* the client is blocked in a lookup
Blocked == cqWaiting # NoKeyYet

\* muta.insert / mutb.insert: a base keeps one row per key
insert(t, r) ==
    /\ ~Blocked
    /\ Len(egressQ) < MaxQueue
    /\ tables[t][r[1]] = NoRow
    /\ tables' = [tables EXCEPT ![t][r[1]] = r[2]]
    /\ egressQ' = Append(egressQ, WritePacket(1, Union(t, r)))
    /\ UNCHANGED <<cqFilled, cqRows, cqWaiting, cqResult, base_table_lookup_requests>>

\* muta.delete(vec![id])
delete(t, k) ==
    /\ ~Blocked
    /\ Len(egressQ) < MaxQueue
    /\ tables[t][k] # NoRow
    /\ tables' = [tables EXCEPT ![t][k] = NoRow]
    /\ egressQ' = Append(egressQ, WritePacket(-1, Union(t, <<k, tables[t][k]>>)))
    /\ UNCHANGED <<cqFilled, cqRows, cqWaiting, cqResult, base_table_lookup_requests>>

IsFilled_Never(k) == FALSE

IsFilled(k) == k \in cqFilled

\* cq.lookup(&[id], true), after sleep(): a filled key is answered from the
\* reader's state, a key that is not filled is requested from the bases
cq_lookup(k) ==
    /\ ~Blocked
    /\ egressQ = <<>>
    /\ IF IsFilled(k)
       THEN /\ cqResult' = [key |-> k, rows |-> cqRows[k]]
            /\ UNCHANGED cqWaiting
       ELSE /\ cqWaiting' = k
            /\ UNCHANGED cqResult
    /\ UNCHANGED <<tables, egressQ, cqFilled, cqRows, base_table_lookup_requests>>

\* the bases answer the request: one base-table lookup request, whose rows
\* travel to the reader behind the packets already on their way
BaseTableLookup ==
    /\ Blocked
    /\ \A i \in 1..Len(egressQ) : egressQ[i].type # "Replay"
    /\ base_table_lookup_requests' = base_table_lookup_requests + 1
    /\ egressQ' = Append(egressQ,
          ReplayPacket(cqWaiting,
                   [r \in ViewRows |-> BaseLookup("a", cqWaiting)[r] + BaseLookup("b", cqWaiting)[r]]))
    /\ UNCHANGED <<tables, cqFilled, cqRows, cqWaiting, cqResult>>

\* the reader takes the next packet: a write to a key it holds is applied,
\* a write to a key it does not hold is dropped, a replay fills its key and
\* answers the blocked lookup
ReaderReceive ==
    /\ egressQ # <<>>
    /\ egressQ' = Tail(egressQ)
    /\ LET m == Head(egressQ) IN
       IF m.type = "Regular"
       THEN /\ cqRows' = IF KeyOf(m.row) \in cqFilled
                         THEN [cqRows EXCEPT ![KeyOf(m.row)] = Add(@, m.row, m.sign)]
                         ELSE cqRows
            /\ UNCHANGED <<cqFilled, cqWaiting, cqResult>>
       ELSE /\ cqRows' = [cqRows EXCEPT ![m.key] = m.bag]
            /\ cqFilled' = cqFilled \cup {m.key}
            /\ cqResult' = [key |-> m.key, rows |-> m.bag]
            /\ cqWaiting' = NoKeyYet
    /\ UNCHANGED <<tables, base_table_lookup_requests>>

InitView ==
    /\ tables = [t \in Bases |-> [k \in Ids |-> NoRow]]
    /\ egressQ = <<>>
    /\ cqFilled = {}
    /\ cqRows = [k \in Ids |-> EmptyBag]
    /\ cqWaiting = NoKeyYet
    /\ cqResult = NoView
    /\ base_table_lookup_requests = 0

----------------------------------------------------------------------------
(* The Blender and its migrations (src/flow/mod.rs).  Sharding is disabled  *)
(* (Blender::disable_sharding); an edge stands for the path between two     *)
(* nodes, the ingress and egress nodes on it are left out.                  *)

MaxNodes == 3        \* how many nodes migrations add to the source
MaxDomains == 2      \* how many domains the assignment uses
MaxFields == 2       \* how many columns a base gets
MaxChanges == 1      \* how many column changes a migration makes
MaxMigrations == 2   \* how many migrations are started
MaxMaterialized == 1 \* how many edges are marked for materialization

source == 1
NoDomain == -1
NoLocal == -1

NodeIndices == 1..Len(ingredients)

\* node::Node::new: no domain and no local address yet, the Blender owns
\* the node's inner value (NodeHandle::Owned)
NewNode(kind, transactional) ==
    [kind |-> kind, transactional |-> transactional, domain |-> NoDomain,
     local |-> NoLocal, dropped |-> FALSE, fields |-> 1, dropped_fields |-> {},
     handle |-> "Owned"]

\* NodeHandle::mark_taken: taking a taken value is unreachable!()
mark_taken(node) == [node EXCEPT !.handle = "Taken"]

\* Node::take: the node the domain gets is a mirror of the Blender's, with its
\* address; the Blender's handle is marked taken
take(node) == [fields |-> node.fields, dropped_fields |-> node.dropped_fields,
               domain |-> node.domain, local |-> node.local]

\* Node::add_to: assert!(self.domain.is_none()), then the domain is set
add_to(node, domain) == [node EXCEPT !.domain = domain]

\* Node::mirror: a node of another type in the same domain
mirror(n, kind) == [NewNode(kind, ingredients[n].transactional) EXCEPT
                      !.domain = ingredients[n].domain,
                      !.fields = ingredients[n].fields]

NoMigration == [active |-> FALSE, added |-> {}, columns |-> <<>>, readers |-> {}, materialize |-> {}]

\* the nodes an ingredient can name as its ancestors
Ancestors == {n \in NodeIndices : ingredients[n].kind \in {"base", "internal"}}

is_base(n) == ingredients[n].kind = "base" /\ ingredients[n].domain # NoDomain

\* Blender::start_migration
start_migration ==
    /\ ~mig.active
    /\ migrations < MaxMigrations
    /\ migrations' = migrations + 1
    /\ mig' = [NoMigration EXCEPT !.active = TRUE]
    /\ migOp' = "start_migration"
    /\ UNCHANGED <<ingredients, edges, materialized, ndomains, domains, domainFields>>

\* the edges add_ingredient gives a node with no ancestors
BaseEdges_None(ni) == {}

BaseEdges(ni) == {<<source, ni>>}

\* Migration::add_ingredient
add_ingredient(parents) ==
    LET ni == Len(ingredients) + 1
        transactional == parents # {} /\ \A p \in parents : ingredients[p].transactional
    IN
    /\ mig.active
    /\ Len(ingredients) <= MaxNodes
    /\ parents \subseteq Ancestors
    /\ ingredients' = Append(ingredients,
                             NewNode(IF parents = {} THEN "base" ELSE "internal", transactional))
    /\ mig' = [mig EXCEPT !.added = @ \cup {ni}]
    /\ edges' = edges \cup (IF parents = {} THEN BaseEdges(ni)
                            ELSE {<<p, ni>> : p \in parents})
    /\ migOp' = "add_ingredient"
    /\ UNCHANGED <<materialized, ndomains, domains, domainFields, migrations>>

\* Migration::add_transactional_base
add_transactional_base ==
    LET ni == Len(ingredients) + 1 IN
    /\ mig.active
    /\ Len(ingredients) <= MaxNodes
    /\ ingredients' = Append(ingredients, NewNode("base", TRUE))
    /\ mig' = [mig EXCEPT !.added = @ \cup {ni}]
    /\ edges' = edges \cup {<<source, ni>>}
    /\ migOp' = "add_transactional_base"
    /\ UNCHANGED <<materialized, ndomains, domains, domainFields, migrations>>

\* Migration::add_column: the Blender's base gets the column at once, its
\* domain is told at commit
add_column(node) ==
    /\ mig.active
    /\ node \in NodeIndices
    /\ node \notin mig.added
    /\ is_base(node)
    /\ ingredients[node].fields < MaxFields
    /\ Len(mig.columns) < MaxChanges
    /\ ingredients' = [ingredients EXCEPT ![node].fields = @ + 1]
    /\ mig' = [mig EXCEPT !.columns = Append(@, <<node, "Add", ingredients[node].fields>>)]
    /\ migOp' = "add_column"
    /\ UNCHANGED <<edges, materialized, ndomains, domains, domainFields, migrations>>

\* Migration::drop_column
drop_column(node, column) ==
    /\ mig.active
    /\ node \in NodeIndices
    /\ node \notin mig.added
    /\ is_base(node)
    /\ column \in 0..(ingredients[node].fields - 1)
    /\ column \notin ingredients[node].dropped_fields
    /\ Len(mig.columns) < MaxChanges
    /\ ingredients' = [ingredients EXCEPT ![node].dropped_fields = @ \cup {column}]
    /\ mig' = [mig EXCEPT !.columns = Append(@, <<node, "Drop", column>>)]
    /\ migOp' = "drop_column"
    /\ UNCHANGED <<edges, materialized, ndomains, domains, domainFields, migrations>>

\* Migration::materialize
materialize(src, dst) ==
    /\ mig.active
    /\ <<src, dst>> \in edges
    /\ <<src, dst>> \notin materialized
    /\ Cardinality(materialized) < MaxMaterialized
    /\ materialized' = materialized \cup {<<src, dst>>}
    /\ mig' = [mig EXCEPT !.materialize = @ \cup {<<src, dst>>}]
    /\ migOp' = "materialize"
    /\ UNCHANGED <<ingredients, edges, ndomains, domains, domainFields, migrations>>

\* Migration::maintain, through ensure_reader_for: the first call for n adds
\* a reader under n
maintain(n) ==
    LET r == Len(ingredients) + 1 IN
    /\ mig.active
    /\ n \in Ancestors
    /\ \A nr \in mig.readers : nr[1] # n
    /\ Len(ingredients) <= MaxNodes
    /\ ingredients' = Append(ingredients, mirror(n, "reader"))
    /\ edges' = edges \cup {<<n, r>>}
    /\ mig' = [mig EXCEPT !.readers = @ \cup {<<n, r>>}]
    /\ migOp' = "maintain"
    /\ UNCHANGED <<materialized, ndomains, domains, domainFields, migrations>>

\* Migration::memcached_hook
memcached_hook(n) ==
    LET h == Len(ingredients) + 1 IN
    /\ mig.active
    /\ n \in Ancestors
    /\ Len(ingredients) <= MaxNodes
    /\ ingredients' = Append(ingredients, mirror(n, "hook"))
    /\ edges' = edges \cup {<<n, h>>}
    /\ migOp' = "memcached_hook"
    /\ UNCHANGED <<materialized, ndomains, domains, domainFields, mig, migrations>>

\* the nodes of domain d that commit looks at: not the source, not dropped
DomainNodes(ing, d) ==
    {ni \in 1..Len(ing) : ni # source /\ ~ing[ni].dropped /\ ing[ni].domain = d}

\* "Number of pre-existing nodes": the local index of the domain's first new node
FirstLocal(ing, d, new) == Cardinality(DomainNodes(ing, d) \ new)

\* "Give local addresses to every (new) node": in the order of the node indices
LocalOf(ing, ni, new) ==
    FirstLocal(ing, ing[ni].domain, new)
    + Cardinality({m \in DomainNodes(ing, ing[ni].domain) \cap new : m < ni})

\* migrate::assignment::assign: every new node without a domain gets one,
\* an existing domain or the next new ones
Assignments(new) ==
    {f \in [{ni \in new : ingredients[ni].domain = NoDomain} -> 0..(MaxDomains - 1)] :
        \A d \in 0..(MaxDomains - 1) :
            (d >= ndomains /\ \E ni \in DOMAIN f : f[ni] > d) => \E ni \in DOMAIN f : f[ni] = d}

Max(S, least) == IF S = {} THEN least ELSE CHOOSE x \in S : \A y \in S : y <= x

\* Migration::commit
commit ==
    LET new == mig.added \cup {nr[2] : nr \in mig.readers} IN
    /\ mig.active
    \* domain() of a node that never got a domain panics
    /\ \A ni \in NodeIndices \ (new \cup {source}) :
          ingredients[ni].dropped \/ ingredients[ni].domain # NoDomain
    /\ \E f \in Assignments(new) :
          LET assigned == [ni \in NodeIndices |->
                              IF ni \in DOMAIN f
                              THEN add_to(ingredients[ni], f[ni])
                              ELSE ingredients[ni]]
              changed_domains == {assigned[ni].domain : ni \in new}
          IN
          /\ ingredients' = [ni \in NodeIndices |->
                                IF ni \in new
                                THEN mark_taken([assigned[ni] EXCEPT
                                                    !.local = LocalOf(assigned, ni, new)])
                                ELSE assigned[ni]]
          /\ ndomains' = Max({f[ni] + 1 : ni \in DOMAIN f} \cup {ndomains}, ndomains)
          /\ domains' = domains \cup changed_domains
    \* the domains take their new nodes; the column changes reach the old ones
    /\ domainFields' = [ni \in NodeIndices |-> take(ingredients'[ni])]
    /\ mig' = NoMigration
    /\ migOp' = "commit"
    /\ UNCHANGED <<edges, materialized, migrations>>

\* the Migration goes out of scope without commit: it has no Drop
drop_migration ==
    /\ mig.active
    /\ mig' = NoMigration
    /\ migOp' = "drop"
    /\ UNCHANGED <<ingredients, edges, materialized, ndomains, domains, domainFields, migrations>>

\* a node of a domain is marked dropped; it stays in the graph
mark_dropped(ni) ==
    /\ ~mig.active
    /\ ni \in NodeIndices \ {source}
    /\ ingredients[ni].local # NoLocal
    /\ ~ingredients[ni].dropped
    /\ ingredients' = [ingredients EXCEPT ![ni].dropped = TRUE]
    /\ migOp' = "mark_dropped"
    /\ UNCHANGED <<edges, materialized, ndomains, domains, domainFields, mig, migrations>>

\* Blender::default
InitFlow ==
    /\ ingredients = <<[NewNode("source", TRUE) EXCEPT !.fields = 1]>>
    /\ edges = {}
    /\ materialized = {}
    /\ ndomains = 0
    /\ domains = {}
    /\ domainFields = <<>>
    /\ mig = NoMigration
    /\ migOp = "new"
    /\ migrations = 0

----------------------------------------------------------------------------
(* Expression::eval (dataflow/expression/src/lib.rs) on columns, literals,  *)
(* addition, CAST, ifnull, month and round.  A Real is kept in tenths.      *)

\* DataType
DataType(t, n, s) == [t |-> t, n |-> n, s |-> s]
DNone == DataType("None", 0, "")
DInt(n) == DataType("Int", n, "")
DReal(tenths) == DataType("Real", tenths, "")
DText(s) == DataType("Text", 0, s)
DDate(ymd) == DataType("Date", ymd, "")

\* the values of the columns and literals
Values == {DNone, DInt(2), DInt(52), DReal(521), DText("1"), DText("banana"),
           DText("2003-10-12"), DDate(20031012)}

SqlTypes == {"Int", "Date"}

\* ReadySetResult, and the Cow of an Ok
Ok(cow, v) == [ok |-> TRUE, cow |-> cow, val |-> v]
Err == [ok |-> FALSE, cow |-> "-", val |-> DNone]
NotEvaluated == [ok |-> TRUE, cow |-> "-", val |-> DNone]

\* what the texts of Values parse to
ParsesAsInt(s) == s = "1"
ParsesAsDate(s) == s = "2003-10-12"

Pow10(k) == IF k <= 0 THEN 1 ELSE IF k = 1 THEN 10 ELSE IF k = 2 THEN 100 ELSE 1000

\* f64::round of a / b: half away from zero
RoundDiv(a, b) ==
    IF a >= 0 THEN (2 * a + b) \div (2 * b) ELSE 0 - ((2 * (0 - a) + b) \div (2 * b))

\* DataType::coerce_to: Ok with the value as the type, or Err
coerce_to(v, ty) ==
    CASE v.t = "None" -> Ok("Borrowed", v)
      [] ty = "Int" /\ v.t = "Int" -> Ok("Borrowed", v)
      [] ty = "Int" /\ v.t = "Real" -> Ok("Owned", DInt(RoundDiv(v.n, 10)))
      [] ty = "Int" /\ v.t = "Text" /\ ParsesAsInt(v.s) -> Ok("Owned", DInt(1))
      [] ty = "Date" /\ v.t = "Date" -> Ok("Borrowed", v)
      [] ty = "Date" /\ v.t = "Text" /\ ParsesAsDate(v.s) -> Ok("Owned", DDate(20031012))
      [] OTHER -> Err

\* DataType + DataType
Plus(l, r) ==
    CASE l.t = "Int" /\ r.t = "Int" -> Ok("Owned", DInt(l.n + r.n))
      [] l.t = "Real" /\ r.t = "Real" -> Ok("Owned", DReal(l.n + r.n))
      [] l.t = "Int" /\ r.t = "Real" -> Ok("Owned", DReal(10 * l.n + r.n))
      [] l.t = "Real" /\ r.t = "Int" -> Ok("Owned", DReal(l.n + 10 * r.n))
      [] OTHER -> Err

\* fn month
month(date) == (date.n \div 100) % 100

\* maths::int::integer_rnd
integer_rnd(val, prec) ==
    IF prec >= 0 THEN val ELSE RoundDiv(val, Pow10(0 - prec)) * Pow10(0 - prec)

\* the precision round uses: "match non_null!(param2)"
rnd_prec(param2) ==
    CASE param2.t = "Int" -> param2.n
      [] param2.t = "Real" -> RoundDiv(param2.n, 10)
      [] OTHER -> 0

\* BuiltinFunction::Round on a value that is not NULL
RoundOf(expr, prec) ==
    CASE expr.t = "Real" ->
            IF prec > 0
            \* out_prec = min(prec, rnd_prec) is the stored precision
            THEN Ok("Owned", DReal(expr.n))
            ELSE Ok("Owned", DInt(RoundDiv(expr.n, 10 * Pow10(0 - prec)) * Pow10(0 - prec)))
      [] expr.t = "Int" -> Ok("Owned", DInt(integer_rnd(expr.n, prec)))
      [] OTHER -> Err

\* the Cast arm, on what the operand evaluated to
CastOf(operand, ty) ==
    IF ~operand.ok THEN Err
    ELSE IF operand.cow = "Borrowed" THEN coerce_to(operand.val, ty)
    ELSE IF operand.val = DNone THEN Ok("Owned", DNone)
    ELSE IF coerce_to(operand.val, ty).ok THEN Ok("Owned", coerce_to(operand.val, ty).val)
    ELSE Err

\* Expression
Column(c) == [tag |-> "Column", c |-> c]
Literal(dt) == [tag |-> "Literal", dt |-> dt]
OpAdd(left, right) == [tag |-> "Add", left |-> left, right |-> right]
Cast(expr, ty) == [tag |-> "Cast", expr |-> expr, ty |-> ty]
IfNull(arg1, arg2) == [tag |-> "IfNull", arg1 |-> arg1, arg2 |-> arg2]
Month(arg) == [tag |-> "Month", arg |-> arg]
Round(arg1, arg2) == [tag |-> "Round", arg1 |-> arg1, arg2 |-> arg2]

\* Expression::eval
RECURSIVE eval(_, _)
eval(e, rec) ==
    CASE e.tag = "Column" -> Ok("Borrowed", rec[e.c + 1])
      [] e.tag = "Literal" -> Ok("Owned", e.dt)
      [] e.tag = "Add" ->
            LET left == eval(e.left, rec)
                right == eval(e.right, rec)
            IN  IF ~left.ok \/ ~right.ok THEN Err
                ELSE IF left.val = DNone \/ right.val = DNone THEN Ok("Owned", DNone)
                ELSE Plus(left.val, right.val)
      [] e.tag = "Cast" -> CastOf(eval(e.expr, rec), e.ty)
      [] e.tag = "IfNull" ->
            LET param1 == eval(e.arg1, rec)
                param2 == eval(e.arg2, rec)
            IN  IF ~param1.ok \/ ~param2.ok THEN Err
                ELSE IF param1.val = DNone THEN param2 ELSE param1
      [] e.tag = "Month" ->
            LET param == eval(e.arg, rec) IN
            IF ~param.ok THEN Err
            ELSE LET param_cast == coerce_to(param.val, "Date") IN
                 IF ~param_cast.ok \/ param_cast.val = DNone THEN Ok("Owned", DNone)
                 ELSE Ok("Owned", DataType("UnsignedInt", month(param_cast.val), ""))
      [] e.tag = "Round" ->
            LET expr == eval(e.arg1, rec)
                param2 == eval(e.arg2, rec)
            IN  IF ~expr.ok \/ ~param2.ok THEN Err
                ELSE IF param2.val = DNone \/ expr.val = DNone THEN Ok("Owned", DNone)
                ELSE RoundOf(expr.val, rnd_prec(param2.val))

\* the width of the source record
Width == 2
Records == [1..Width -> Values]

Operands == {Column(c) : c \in 0..(Width - 1)} \cup {Literal(DNone), Literal(DInt(0 - 1))}

Calls == {OpAdd(l, r) : l, r \in Operands}
         \cup {Cast(x, ty) : x \in Operands, ty \in SqlTypes}
         \cup {IfNull(l, r) : l, r \in Operands}
         \cup {Month(x) : x \in Operands}
         \cup {Round(l, r) : l, r \in Operands}

Expressions == Operands \cup Calls
               \cup {Cast(Month(Column(0)), "Int"), Month(Cast(Column(0), "Date")),
                     Round(Cast(Column(0), "Int"), Column(1)),
                     OpAdd(Round(Column(0), Column(1)), Column(1))}

\* a projection evaluates its expression on a record
Project(e, rec) ==
    /\ evaluated = NotEvaluated
    /\ expression' = e
    /\ record' = rec
    /\ evaluated' = eval(e, rec)

InitExpression ==
    /\ expression = Column(0)
    /\ record = [i \in 1..Width |-> DNone]
    /\ evaluated = NotEvaluated

----------------------------------------------------------------------------
(* BuiltinFunction::from_name_and_args (dataflow/expression/src/lib.rs)     *)

MaxArgs == 4         \* how many arguments a call is written with

\* the names a query calls: the built-in functions and one that is none
FunctionNames == {"convert_tz", "dayofweek", "ifnull", "month", "timediff", "addtime",
                  "round", "nosuch"}

\* the arguments a call is written with
ArgExprs == {Column(0), Literal(DInt(0 - 1))}
ArgLists == UNION {[1..n -> ArgExprs] : n \in 0..MaxArgs}

\* BuiltinFunction's other variants
ConvertTZ(arg1, arg2, arg3) == [tag |-> "ConvertTZ", arg1 |-> arg1, arg2 |-> arg2, arg3 |-> arg3]
DayOfWeek(arg) == [tag |-> "DayOfWeek", arg |-> arg]
Timediff(arg1, arg2) == [tag |-> "Timediff", arg1 |-> arg1, arg2 |-> arg2]
Addtime(arg1, arg2) == [tag |-> "Addtime", arg1 |-> arg1, arg2 |-> arg2]

\* ReadySetError
ArityError(name) == [tag |-> "ArityError", name |-> name]
NoSuchFunction(name) == [tag |-> "NoSuchFunction", name |-> name]
NotBuilt == [tag |-> "NotBuilt"]

\* args.next().ok_or_else(arity_error)? for the first n arguments
HasArgs(args, n) == Len(args) >= n

from_name_and_args(name, args) ==
    CASE name = "convert_tz" ->
            IF HasArgs(args, 3) THEN ConvertTZ(args[1], args[2], args[3])
            ELSE ArityError("convert_tz")
      [] name = "dayofweek" ->
            IF HasArgs(args, 1) THEN DayOfWeek(args[1]) ELSE ArityError("dayofweek")
      [] name = "ifnull" ->
            IF HasArgs(args, 2) THEN IfNull(args[1], args[2]) ELSE ArityError("ifnull")
      [] name = "month" ->
            IF HasArgs(args, 1) THEN Month(args[1]) ELSE ArityError("month")
      [] name = "timediff" ->
            IF HasArgs(args, 2) THEN Timediff(args[1], args[2]) ELSE ArityError("timediff")
      [] name = "addtime" ->
            IF HasArgs(args, 2) THEN Addtime(args[1], args[2]) ELSE ArityError("addtime")
      [] name = "round" ->
            IF HasArgs(args, 1)
            \* args.next().unwrap_or(Expression::Literal(DataType::Int(0)))
            THEN Round(args[1], IF Len(args) >= 2 THEN args[2] ELSE Literal(DInt(0)))
            ELSE ArityError("round")
      [] OTHER -> NoSuchFunction(name)

\* the query compiler builds the call name(args)
BuildCall(name, args) ==
    /\ built = NotBuilt
    /\ fname' = name
    /\ fargs' = args
    /\ built' = from_name_and_args(name, args)

InitBuild ==
    /\ fname = "nosuch"
    /\ fargs = <<>>
    /\ built = NotBuilt

----------------------------------------------------------------------------
(* QueryResultWriter and RowWriter (msql-srv/src/resultset.rs).  The writer *)
(* never fails, and the values written are not NULL.                        *)

MaxResultsets == 2   \* how many resultsets a query is answered with
MaxColumns == 2      \* how many columns a resultset declares
MaxRows == 1         \* how many rows are written to a resultset
MaxSurplus == 1      \* how many values are written beyond the declared columns

\* Option<StatusFlags>
NoFlags == [some |-> FALSE, flags |-> {}]
SomeFlags(flags) == [some |-> TRUE, flags |-> flags]
StatusInputs == {NoFlags, SomeFlags({"SERVER_STATUS_AUTOCOMMIT"}),
                 SomeFlags({"SERVER_MORE_RESULTS_EXISTS"})}

\* Option<Finalizer>
NoFinalizer == [kind |-> "none", rows |-> 0, status_flags |-> NoFlags]
FinalizerOk(n, status_flags) == [kind |-> "ok", rows |-> n, status_flags |-> status_flags]
FinalizerEof(status_flags) == [kind |-> "eof", rows |-> 0, status_flags |-> status_flags]

\* the packets of writers::
Packet(kind, n, flags) == [kind |-> kind, n |-> n, status |-> flags]

\* the status finalize writes
MoreFlag(more_exists) == IF more_exists THEN {"SERVER_MORE_RESULTS_EXISTS"} ELSE {}

\* QueryResultWriter::finalize: the wire after it
finalize(more_exists) ==
    LET sf == (IF last_end.status_flags.some THEN last_end.status_flags.flags ELSE {})
              \cup MoreFlag(more_exists)
    IN  IF last_end = NoFinalizer THEN wire
        ELSE Append(wire, Packet(last_end.kind, last_end.rows, sf))

\* QueryResultWriter::new
NewWriter(bin) ==
    /\ wphase = "new"
    /\ wphase' = "query"
    /\ is_bin' = bin
    /\ wop' = "new"
    /\ wret' = "Ok"
    /\ UNCHANGED <<last_end, columns, col, last_status_flags, wire, produced>>

\* QueryResultWriter::start, RowWriter::new and RowWriter::start
start(ncols) ==
    /\ wphase = "query"
    /\ Len(produced) < MaxResultsets
    /\ wire' = IF ncols = 0 THEN finalize(TRUE)
               ELSE Append(finalize(TRUE), Packet("column_definitions", ncols, {}))
    /\ last_end' = NoFinalizer
    /\ columns' = ncols
    /\ col' = 0
    /\ last_status_flags' = NoFlags
    /\ wphase' = "rows"
    /\ wop' = "start"
    /\ wret' = "Ok"
    /\ UNCHANGED <<is_bin, produced>>

complete_one(affected, status_flags) ==
    /\ wphase = "query"
    /\ Len(produced) < MaxResultsets
    /\ wire' = finalize(TRUE)
    /\ last_end' = FinalizerOk(affected, status_flags)
    /\ produced' = Append(produced, "ok")
    /\ wop' = "complete_one"
    /\ wret' = "Ok"
    /\ UNCHANGED <<wphase, is_bin, columns, col, last_status_flags>>

\* complete_one, then no_more_results
completed(affected, status_flags) ==
    /\ wphase = "query"
    /\ Len(produced) < MaxResultsets
    /\ wire' = Append(finalize(TRUE),
                      Packet("ok", affected, (IF status_flags.some THEN status_flags.flags ELSE {})
                                         \cup MoreFlag(FALSE)))
    /\ last_end' = NoFinalizer
    /\ produced' = Append(produced, "ok")
    /\ wphase' = "closed"
    /\ wop' = "completed"
    /\ wret' = "Ok"
    /\ UNCHANGED <<is_bin, columns, col, last_status_flags>>

\* finalize(true), write_err, then no_more_results, which finds no finalizer
error ==
    /\ wphase = "query"
    /\ wire' = Append(finalize(TRUE), Packet("err", 0, {}))
    /\ last_end' = NoFinalizer
    /\ wphase' = "closed"
    /\ wop' = "error"
    /\ wret' = "Ok"
    /\ UNCHANGED <<is_bin, columns, col, last_status_flags, produced>>

no_more_results ==
    /\ wphase = "query"
    /\ wire' = finalize(FALSE)
    /\ last_end' = NoFinalizer
    /\ wphase' = "closed"
    /\ wop' = "no_more_results"
    /\ wret' = "Ok"
    /\ UNCHANGED <<is_bin, columns, col, last_status_flags, produced>>

\* Drop for QueryResultWriter: the finalizer is taken and a warning printed
DropQueryResultWriter ==
    /\ wphase = "query"
    /\ last_end' = NoFinalizer
    /\ wphase' = "closed"
    /\ wop' = "drop"
    /\ wret' = "-"
    /\ UNCHANGED <<is_bin, columns, col, last_status_flags, wire, produced>>

\* the check of the binary protocol's branch: self.columns.get(self.col)
InSpecification(c) == c < columns

\* RowWriter::write_col: what it returns with the column counter at c
WriteColReturns(c) ==
    IF columns = 0 THEN "Ok"
    ELSE IF is_bin /\ ~InSpecification(c) THEN "InvalidData"
    ELSE "Ok"

write_col ==
    /\ wphase = "rows"
    /\ col < columns + MaxSurplus
    /\ wret' = WriteColReturns(col)
    /\ col' = IF columns # 0 /\ wret' = "Ok" THEN col + 1 ELSE col
    /\ wop' = "write_col"
    /\ UNCHANGED <<wphase, is_bin, last_end, columns, last_status_flags, wire, produced>>

\* how many rows the resultset has on the wire
RowsWritten ==
    Cardinality({i \in 1..Len(wire) :
                    /\ wire[i].kind = "row"
                    /\ \A j \in (i + 1)..Len(wire) : wire[j].kind = "row"})

\* RowWriter::end_row: what it returns with the column counter at c
EndRowReturns(c) ==
    IF columns = 0 THEN "Ok"
    ELSE IF c # columns THEN "InvalidData"
    ELSE "Ok"

\* RowWriter::end_row: the column counter and the wire after it
EndRowCol(c) ==
    IF columns = 0 THEN c + 1
    ELSE IF c # columns THEN c
    ELSE 0

EndRowWire(c) ==
    IF columns # 0 /\ c = columns THEN Append(wire, Packet("row", c, {})) ELSE wire

end_row ==
    /\ wphase = "rows"
    /\ IF columns = 0 THEN col < MaxRows ELSE RowsWritten < MaxRows \/ col # columns
    /\ wret' = EndRowReturns(col)
    /\ col' = EndRowCol(col)
    /\ wire' = EndRowWire(col)
    /\ wop' = "end_row"
    /\ UNCHANGED <<wphase, is_bin, last_end, columns, last_status_flags, produced>>

\* the column counter after the write_col calls of write_row with n values:
\* the loop stops at the first error
RECURSIVE ColAfter(_, _)
ColAfter(c, n) ==
    IF n = 0 \/ WriteColReturns(c) # "Ok" THEN c ELSE ColAfter(c + 1, n - 1)

RECURSIVE WritesFail(_, _)
WritesFail(c, n) ==
    IF n = 0 THEN FALSE
    ELSE IF WriteColReturns(c) # "Ok" THEN TRUE ELSE WritesFail(c + 1, n - 1)

write_row(n) ==
    /\ wphase = "rows"
    /\ col + n <= columns + MaxSurplus
    /\ IF columns = 0 THEN col < MaxRows ELSE RowsWritten < MaxRows \/ col + n # columns
    /\ IF columns # 0 /\ WritesFail(col, n)
       THEN /\ wret' = "InvalidData"
            /\ col' = ColAfter(col, n)
            /\ wire' = wire
       ELSE LET c == IF columns = 0 THEN col ELSE col + n IN
            /\ wret' = EndRowReturns(c)
            /\ col' = EndRowCol(c)
            /\ wire' = EndRowWire(c)
    /\ wop' = "write_row"
    /\ UNCHANGED <<wphase, is_bin, last_end, columns, last_status_flags, produced>>

set_status_flags(status_flags) ==
    /\ wphase = "rows"
    /\ last_status_flags = NoFlags
    /\ last_status_flags' = status_flags
    /\ wop' = "set_status_flags"
    /\ wret' = "Ok"
    /\ UNCHANGED <<wphase, is_bin, last_end, columns, col, wire, produced>>

\* RowWriter::finish_inner: the finalizer it leaves in the QueryResultWriter
finish_inner(c) ==
    IF columns = 0 THEN FinalizerOk(c, last_status_flags)
    ELSE FinalizerEof(last_status_flags)

\* RowWriter::finish_one.  When end_row fails the RowWriter is dropped, and
\* with it the QueryResultWriter it holds and the finalizer.
finish_one ==
    /\ wphase = "rows"
    /\ wop' = "finish_one"
    /\ IF columns # 0 /\ col # 0 /\ EndRowReturns(col) # "Ok"
       THEN /\ wret' = EndRowReturns(col)
            /\ last_end' = NoFinalizer
            /\ wphase' = "closed"
            /\ UNCHANGED <<col, wire, produced>>
       ELSE /\ wret' = "Ok"
            /\ wire' = IF columns # 0 /\ col # 0 THEN EndRowWire(col) ELSE wire
            /\ col' = IF columns # 0 /\ col # 0 THEN EndRowCol(col) ELSE col
            /\ last_end' = finish_inner(col)
            /\ produced' = Append(produced, last_end'.kind)
            /\ wphase' = "query"
    /\ UNCHANGED <<is_bin, columns, last_status_flags>>

\* finish_one, then no_more_results
finish ==
    /\ wphase = "rows"
    /\ wop' = "finish"
    /\ IF columns # 0 /\ col # 0 /\ EndRowReturns(col) # "Ok"
       THEN /\ wret' = EndRowReturns(col)
            /\ UNCHANGED <<col, wire, produced>>
       ELSE LET end == finish_inner(col)
                sf == (IF end.status_flags.some THEN end.status_flags.flags ELSE {})
                      \cup MoreFlag(FALSE)
            IN  /\ wret' = "Ok"
                /\ wire' = Append(IF columns # 0 /\ col # 0 THEN EndRowWire(col) ELSE wire,
                                  Packet(end.kind, end.rows, sf))
                /\ col' = IF columns # 0 /\ col # 0 THEN EndRowCol(col) ELSE col
                /\ produced' = Append(produced, end.kind)
    /\ last_end' = NoFinalizer
    /\ wphase' = "closed"
    /\ UNCHANGED <<is_bin, columns, last_status_flags>>

\* Drop for RowWriter: finish_inner, then the QueryResultWriter is dropped
DropRowWriter ==
    /\ wphase = "rows"
    /\ last_end' = NoFinalizer
    /\ wphase' = "closed"
    /\ wop' = "drop"
    /\ wret' = "-"
    /\ UNCHANGED <<is_bin, columns, col, last_status_flags, wire, produced>>

InitWriter ==
    /\ wphase = "new"
    /\ is_bin = FALSE
    /\ last_end = NoFinalizer
    /\ columns = 0
    /\ col = 0
    /\ last_status_flags = NoFlags
    /\ wire = <<>>
    /\ produced = <<>>
    /\ wop = "-"
    /\ wret = "-"

----------------------------------------------------------------------------
(* ConsulAuthority::try_get_leader called by several tasks that share one   *)
(* authority: a call reads inner.controller_index, awaits consul.get, and   *)
(* handles the answer when it is scheduled again.                           *)

MaxPending == 2      \* how many answers of consul.get wait to be handled
MaxReports == 2      \* how many NewLeader results an authority returns

\* the authority whose tasks look for the leader
Observers == {"a2"}

\* try_get_leader up to the answer of consul.get
TryGetLeaderGet(a) ==
    /\ Cardinality(pendingGets[a]) < MaxPending
    /\ pendingGets' = [pendingGets EXCEPT ![a] =
                          @ \cup {[current_index |-> controller_index[a], kv |-> leaderKey]}]
    /\ UNCHANGED <<leaderVars, reply, workerKeys, rmwVars, reported>>

\* try_get_leader from the answer of consul.get to its return
TryGetLeaderReturn(a, call) ==
    /\ call \in pendingGets[a]
    /\ Len(reported[a]) < MaxReports
    /\ pendingGets' = [pendingGets EXCEPT ![a] = @ \ {call}]
    /\ IF call.kv.exists /\ is_new_index(call.current_index, call.kv)
       THEN /\ controller_index' = [controller_index EXCEPT ![a] = IndexOfPair(call.kv)]
            /\ IF Parses(call.kv.value)
               THEN /\ reply' = Reply(a, "try_get_leader", "NewLeader", call.kv.value)
                    /\ reported' = [reported EXCEPT ![a] = Append(@, call.kv.index)]
               ELSE /\ reply' = Reply(a, "try_get_leader", "Err", "")
                    /\ UNCHANGED reported
       ELSE /\ UNCHANGED <<controller_index, reported>>
            /\ reply' = IF call.kv.exists
                        THEN Reply(a, "try_get_leader", "Unchanged", "")
                        ELSE Reply(a, "try_get_leader", "NoLeader", "")
    /\ UNCHANGED <<session, leaderKey, raftIndex, pc, ret, workerKeys, rmwVars>>

InitRace ==
    /\ pendingGets = [a \in Authorities |-> {}]
    /\ reported = [a \in Authorities |-> <<>>]

----------------------------------------------------------------------------
(* ConsulAuthority: the controller state.  A key is the sequence of its     *)
(* path segments; KV::put without cas always writes.                        *)

MaxCalls == 2        \* how many times one read_modify_write goes round its loop
MaxState == 2        \* how many updates the controller state counts

Deployments == {"d1", "d2"}

STATE_KEY == <<"state">>

\* the caller's closures: one counts the updates, one refuses with Err(e)
Closures == {"Increment", "Refuse"}

\* f(current_val): the new value, or None for Err(e)
Modified(f, current_val) == IF f = "Increment" THEN Increment(current_val) ELSE None

\* self.deployment.clone() + "/" + path
prefix_with_deployment(d, path) == <<d>> \o path

\* consul.get: the value under the key, or None
Get(key) == IF key \in DOMAIN store THEN store[key] ELSE None

\* consul.put
Put(key, value) == [k \in DOMAIN store \cup {key} |-> IF k = key THEN value ELSE store[k]]

Idle == [pc |-> "idle", path |-> <<>>, f |-> "-", calls |-> 0, modified |-> "-", new |-> None]

\* update_controller_state calls read_modify_write with the prefixed key
update_controller_state(d, f) ==
    /\ rmwCall[d].pc = "idle"
    /\ rmwCall' = [rmwCall EXCEPT ![d] =
                      [pc |-> "loop", path |-> prefix_with_deployment(d, STATE_KEY), f |-> f,
                       calls |-> 0, modified |-> "-", new |-> None]]
    /\ callRet' = [callRet EXCEPT ![d] = "-"]
    /\ UNCHANGED <<store, lastWritten, readRet>>

\* read_modify_write, one turn of its loop up to consul.put: try_read(path),
\* f(current_val), and `if let Ok(r) = modified`
ReadModifyWriteLoop(d) ==
    /\ rmwCall[d].pc = "loop"
    /\ rmwCall[d].calls < MaxCalls
    /\ LET current_val == Get(prefix_with_deployment(d, rmwCall[d].path))
           r == Modified(rmwCall[d].f, current_val)
       IN  /\ r <= MaxState
           /\ rmwCall' = [rmwCall EXCEPT ![d].calls = @ + 1,
                                   ![d].modified = IF r # None THEN "Ok" ELSE "Err",
                                   ![d].new = r,
                                   ![d].pc = IF r # None THEN "put" ELSE "loop"]
    /\ UNCHANGED <<store, callRet, lastWritten, readRet>>

\* read_modify_write from consul.put to `return Ok(Ok(r))`
ReadModifyWritePut(d) ==
    /\ rmwCall[d].pc = "put"
    /\ store' = Put(prefix_with_deployment(d, rmwCall[d].path), rmwCall[d].new)
    /\ lastWritten' = [lastWritten EXCEPT ![d] = rmwCall[d].new]
    /\ callRet' = [callRet EXCEPT ![d] = "Ok(Ok(r))"]
    /\ rmwCall' = [rmwCall EXCEPT ![d].pc = "idle"]
    /\ UNCHANGED readRet

\* try_read(STATE_KEY) and try_read_raw(STATE_KEY) by an authority of d
TryReadState(d) ==
    /\ readRet' = [by |-> d, value |-> Get(prefix_with_deployment(d, STATE_KEY))]
    /\ UNCHANGED <<store, rmwCall, callRet, lastWritten>>

InitState ==
    /\ store = <<>>
    /\ rmwCall = [d \in Deployments |-> Idle]
    /\ callRet = [d \in Deployments |-> "-"]
    /\ lastWritten = [d \in Deployments |-> None]
    /\ readRet = [by |-> "-", value |-> None]

----------------------------------------------------------------------------
(* Column changes at commit (src/flow/mod.rs): Migration::commit step by     *)
(* step, with the domains the changes are sent to.  The graph is the one an *)
(* earlier migration committed: base 1 in domain 0, base 2 in domain 1 and  *)
(* an operator 3 in domain 0; the migration may add base 4, which commit    *)
(* puts in the new domain 2.                                                *)

MaxRequests == 2     \* how many column changes the migration requests

CommittedNodes == {1, 2, 3}
NewBase == 4
CommitDomains == {0, 1, 2}

\* Node::domain of the nodes once commit has assigned them
OwningDomain(node) == CASE node = 1 -> 0 [] node = 2 -> 1 [] node = 3 -> 0 [] OTHER -> 2

\* get_base().is_some()
HoldsBase(node) == node \in {1, 2, NewBase}

\* is_internal(): false for a node that add_to has not assigned yet
IsAssigned(node) == node \in CommittedNodes

\* "not allowed to add columns to new nodes", and the node is a base
AcceptsColumnChange(node) == node \notin cadded /\ IsAssigned(node) /\ HoldsBase(node)

Event(ev, change) == [ev |-> ev, change |-> change]
NoChange == [node |-> 0, change |-> "-", column |-> 0]

\* Migration::add_ingredient of a base
AddNewBase ==
    /\ commitPc = "migration"
    /\ NewBase \notin cadded
    /\ cadded' = cadded \cup {NewBase}
    /\ UNCHANGED <<baseFields, changes, commitPc, nextChange, booted, inbox, ackQ, applied,
                   commitLog>>

\* Migration::add_column
RequestAddColumn(node) ==
    /\ commitPc = "migration"
    /\ AcceptsColumnChange(node)
    /\ Len(changes) < MaxRequests
    /\ baseFields' = [baseFields EXCEPT ![node] = @ + 1]
    /\ changes' = Append(changes, [node |-> node, change |-> "Add", column |-> baseFields[node]])
    /\ UNCHANGED <<cadded, commitPc, nextChange, booted, inbox, ackQ, applied, commitLog>>

\* Migration::drop_column
RequestDropColumn(node, column) ==
    /\ commitPc = "migration"
    /\ AcceptsColumnChange(node)
    /\ Len(changes) < MaxRequests
    /\ column < baseFields[node]
    /\ changes' = Append(changes, [node |-> node, change |-> "Drop", column |-> column])
    /\ UNCHANGED <<cadded, baseFields, commitPc, nextChange, booted, inbox, ackQ, applied,
                   commitLog>>

\* commit, "Boot up new domains"
CommitBoot ==
    /\ commitPc = "migration"
    /\ booted' = booted \cup {OwningDomain(node) : node \in cadded}
    /\ commitPc' = "inform"
    /\ commitLog' = Append(commitLog, Event("boot", NoChange))
    /\ UNCHANGED <<cadded, baseFields, changes, nextChange, inbox, ackQ, applied>>

\* commit, "Add any new nodes to existing domains"
CommitInform ==
    /\ commitPc = "inform"
    /\ commitPc' = "columns"
    /\ nextChange' = 1
    /\ commitLog' = Append(commitLog, Event("inform", NoChange))
    /\ UNCHANGED <<cadded, baseFields, changes, booted, inbox, ackQ, applied>>

\* the order commit sends the changes in
ColumnOrder_Reversed(cs) == [i \in 1..Len(cs) |-> cs[Len(cs) + 1 - i]]

\* "for (ni, change) in self.columns"
ColumnOrder(cs) == cs

\* commit, "Tell all base nodes about newly added columns": domain.send(m)
CommitSend ==
    LET change == ColumnOrder(changes)[nextChange]
        domain == OwningDomain(change.node)
    IN
    /\ commitPc = "columns"
    /\ nextChange <= Len(changes)
    \* mainline.domains.get_mut(&n.domain()).unwrap()
    /\ domain \in booted
    /\ inbox' = [inbox EXCEPT ![domain] = Append(@, change)]
    /\ commitPc' = "wait"
    /\ commitLog' = Append(commitLog, Event("send", change))
    /\ UNCHANGED <<cadded, baseFields, changes, nextChange, booted, ackQ, applied>>

\* the domain handles AddBaseColumn or DropBaseColumn and acks it
DomainHandlePacket(domain) ==
    /\ inbox[domain] # <<>>
    /\ applied' = [applied EXCEPT ![domain] = Append(@, Head(inbox[domain]))]
    /\ inbox' = [inbox EXCEPT ![domain] = Tail(@)]
    /\ ackQ' = [ackQ EXCEPT ![domain] = @ + 1]
    /\ UNCHANGED <<cadded, baseFields, changes, commitPc, nextChange, booted, commitLog>>

\* wait_for_ack returns once the domain's ack is there
AckArrived(domain) == ackQ[domain] > 0

\* commit, domain.wait_for_ack()
CommitWaitForAck ==
    LET change == ColumnOrder(changes)[nextChange]
        domain == OwningDomain(change.node)
    IN
    /\ commitPc = "wait"
    /\ AckArrived(domain)
    /\ ackQ' = [ackQ EXCEPT ![domain] = IF @ > 0 THEN @ - 1 ELSE 0]
    /\ nextChange' = nextChange + 1
    /\ commitPc' = "columns"
    /\ commitLog' = Append(commitLog, Event("ack", change))
    /\ UNCHANGED <<cadded, baseFields, changes, booted, inbox, applied>>

\* commit, "Set up inter-domain connections"
CommitConnect ==
    /\ commitPc = "columns"
    /\ nextChange > Len(changes)
    /\ commitPc' = "initialize"
    /\ commitLog' = Append(commitLog, Event("connect", NoChange))
    /\ UNCHANGED <<cadded, baseFields, changes, nextChange, booted, inbox, ackQ, applied>>

\* commit, "set up materializations"
CommitInitialize ==
    /\ commitPc = "initialize"
    /\ commitPc' = "done"
    /\ commitLog' = Append(commitLog, Event("initialize", NoChange))
    /\ UNCHANGED <<cadded, baseFields, changes, nextChange, booted, inbox, ackQ, applied>>

\* Blender::start_migration on the committed graph
InitCommit ==
    /\ cadded = {}
    /\ baseFields = [node \in {1, 2} |-> 1]
    /\ changes = <<>>
    /\ commitPc = "migration"
    /\ nextChange = 0
    /\ booted = {0, 1}
    /\ inbox = [domain \in CommitDomains |-> <<>>]
    /\ ackQ = [domain \in CommitDomains |-> 0]
    /\ applied = [domain \in CommitDomains |-> <<>>]
    /\ commitLog = <<>>

----------------------------------------------------------------------------
(* The replicator's specification                                           *)

InitRepl ==
    /\ binlog = <<>>
    /\ noriaSchema = None
    /\ noriaTables = <<>>
    /\ rows = [t \in Tables |-> [p \in Pos |-> 0]]
    /\ phase = "stopped"
    /\ position = 0
    /\ replication_offsets = NoOffsets
    /\ mutator_map = {}
    /\ warned_missing_tables = {}
    /\ last = Step("init", "-", "-", 0, None, "-")
    /\ delivered = {}
    /\ restarts = 0
    /\ failures = 0
    /\ timestamps = {}

NextRepl ==
    \/ UpstreamWrite /\ UNCHANGED <<consulVars, replayVars, readerVars, viewVars, flowVars, exprVars, buildVars, writerVars, raceVars, stateVars, commitVars>>
    \/ start_inner_mysql /\ UNCHANGED <<consulVars, replayVars, readerVars, viewVars, flowVars, exprVars, buildVars, writerVars, raceVars, stateVars, commitVars>>
    \/ MainLoopStep /\ UNCHANGED <<consulVars, replayVars, readerVars, viewVars, flowVars, exprVars, buildVars, writerVars, raceVars, stateVars, commitVars>>
    \/ ConnectorError /\ UNCHANGED <<consulVars, replayVars, readerVars, viewVars, flowVars, exprVars, buildVars, writerVars, raceVars, stateVars, commitVars>>

Init == InitRepl /\ InitConsul /\ InitReplay /\ InitReader /\ InitView /\ InitFlow /\ InitExpression /\ InitBuild /\ InitWriter /\ InitRace /\ InitState /\ InitCommit

SpecRepl == Init /\ [][NextRepl]_vars

----------------------------------------------------------------------------
(* The authority's specification                                            *)

NextConsul ==
    \/ \E a \in Authorities : init(a) /\ UNCHANGED <<replVars, replayVars, readerVars, viewVars, flowVars, exprVars, buildVars, writerVars, raceVars, stateVars, commitVars>>
    \/ \E a \in Authorities : BecomeLeaderAcquire(a) /\ UNCHANGED <<replVars, replayVars, readerVars, viewVars, flowVars, exprVars, buildVars, writerVars, raceVars, stateVars, commitVars>>
    \/ \E a \in Authorities : BecomeLeaderReturn(a) /\ UNCHANGED <<replVars, replayVars, readerVars, viewVars, flowVars, exprVars, buildVars, writerVars, raceVars, stateVars, commitVars>>
    \/ \E a \in Authorities : surrender_leadership(a) /\ UNCHANGED <<replVars, replayVars, readerVars, viewVars, flowVars, exprVars, buildVars, writerVars, raceVars, stateVars, commitVars>>
    \/ \E a \in Authorities : SessionDeath(a) /\ UNCHANGED <<replVars, replayVars, readerVars, viewVars, flowVars, exprVars, buildVars, writerVars, raceVars, stateVars, commitVars>>
    \/ \E a \in Authorities : get_leader(a) /\ UNCHANGED <<replVars, replayVars, readerVars, viewVars, flowVars, exprVars, buildVars, writerVars, raceVars, stateVars, commitVars>>
    \/ \E a \in Authorities : try_get_leader(a) /\ UNCHANGED <<replVars, replayVars, readerVars, viewVars, flowVars, exprVars, buildVars, writerVars, raceVars, stateVars, commitVars>>
    \/ \E a \in Authorities, d \in Descriptors :
          register_worker(a, d) /\ UNCHANGED <<replVars, replayVars, readerVars, viewVars, flowVars, exprVars, buildVars, writerVars, raceVars, stateVars, commitVars>>

SpecConsul == Init /\ [][NextConsul]_vars

----------------------------------------------------------------------------
(* The workers' specification                                               *)

NextWorkers ==
    \/ \E a \in Authorities : init(a) /\ UNCHANGED <<replVars, replayVars, readerVars, viewVars, flowVars, exprVars, buildVars, writerVars, raceVars, stateVars, commitVars>>
    \/ \E a \in Authorities, d \in Descriptors :
          register_worker(a, d) /\ UNCHANGED <<replVars, replayVars, readerVars, viewVars, flowVars, exprVars, buildVars, writerVars, raceVars, stateVars, commitVars>>
    \/ \E a \in Authorities : SessionDeath(a) /\ UNCHANGED <<replVars, replayVars, readerVars, viewVars, flowVars, exprVars, buildVars, writerVars, raceVars, stateVars, commitVars>>
    \/ \E a \in Authorities : get_workers(a) /\ UNCHANGED <<replVars, replayVars, readerVars, viewVars, flowVars, exprVars, buildVars, writerVars, raceVars, stateVars, commitVars>>
    \/ \E a, id \in Authorities : worker_heartbeat(a, id) /\ UNCHANGED <<replVars, replayVars, readerVars, viewVars, flowVars, exprVars, buildVars, writerVars, raceVars, stateVars, commitVars>>
    \/ \E a \in Authorities, ids \in SUBSET Authorities :
          worker_data(a, ids) /\ UNCHANGED <<replVars, replayVars, readerVars, viewVars, flowVars, exprVars, buildVars, writerVars, raceVars, stateVars, commitVars>>

SpecWorkers == Init /\ [][NextWorkers]_vars

----------------------------------------------------------------------------
(* read_modify_write's specification                                        *)

NextRmw ==
    \/ \E a \in Authorities : RmwRead(a) /\ UNCHANGED <<replVars, replayVars, readerVars, viewVars, flowVars, exprVars, buildVars, writerVars, raceVars, stateVars, commitVars>>
    \/ \E a \in Authorities : RmwPut(a) /\ UNCHANGED <<replVars, replayVars, readerVars, viewVars, flowVars, exprVars, buildVars, writerVars, raceVars, stateVars, commitVars>>

SpecRmw == Init /\ [][NextRmw]_vars

----------------------------------------------------------------------------
(* The replay engine's specification                                        *)

NextReplay ==
    \/ \E c \in Callers, k \in Keys : lookup(c, k) /\ UNCHANGED <<replVars, consulVars, readerVars, viewVars, flowVars, exprVars, buildVars, writerVars, raceVars, stateVars, commitVars>>
    \/ \E c \in Callers : CancelLookup(c) /\ UNCHANGED <<replVars, consulVars, readerVars, viewVars, flowVars, exprVars, buildVars, writerVars, raceVars, stateVars, commitVars>>
    \/ \E k \in Keys : LiveUpdate(k) /\ UNCHANGED <<replVars, consulVars, readerVars, viewVars, flowVars, exprVars, buildVars, writerVars, raceVars, stateVars, commitVars>>
    \/ HandleReplayRequest /\ UNCHANGED <<replVars, consulVars, readerVars, viewVars, flowVars, exprVars, buildVars, writerVars, raceVars, stateVars, commitVars>>
    \/ NodeReceive /\ UNCHANGED <<replVars, consulVars, readerVars, viewVars, flowVars, exprVars, buildVars, writerVars, raceVars, stateVars, commitVars>>
    \/ \E k \in Keys : Evict(k) /\ UNCHANGED <<replVars, consulVars, readerVars, viewVars, flowVars, exprVars, buildVars, writerVars, raceVars, stateVars, commitVars>>

SpecReplay == Init /\ [][NextReplay]_vars

----------------------------------------------------------------------------
(* The reader handle's specification                                        *)

NextReader ==
    \/ \E k \in KeySpace : WriteInsert(k) /\ UNCHANGED <<replVars, consulVars, replayVars, viewVars, flowVars, exprVars, buildVars, writerVars, raceVars, stateVars, commitVars>>
    \/ Publish /\ UNCHANGED <<replVars, consulVars, replayVars, viewVars, flowVars, exprVars, buildVars, writerVars, raceVars, stateVars, commitVars>>
    \/ \E r \in Ranges : TreeInsert(r) /\ UNCHANGED <<replVars, consulVars, replayVars, viewVars, flowVars, exprVars, buildVars, writerVars, raceVars, stateVars, commitVars>>
    \/ DropWriter /\ UNCHANGED <<replVars, consulVars, replayVars, viewVars, flowVars, exprVars, buildVars, writerVars, raceVars, stateVars, commitVars>>
    \/ \E r \in Ranges : meta_get_range_and(r) /\ UNCHANGED <<replVars, consulVars, replayVars, viewVars, flowVars, exprVars, buildVars, writerVars, raceVars, stateVars, commitVars>>
    \/ RangeReturn /\ UNCHANGED <<replVars, consulVars, replayVars, viewVars, flowVars, exprVars, buildVars, writerVars, raceVars, stateVars, commitVars>>

SpecReader == Init /\ [][NextReader]_vars

----------------------------------------------------------------------------
(* The specification of the reader's snapshots: a fully covered map, its    *)
(* writer and one reader                                                    *)

NextSnapshot ==
    \/ \E k \in KeySpace : WriteInsert(k) /\ UNCHANGED <<replVars, consulVars, replayVars, viewVars, flowVars, exprVars, buildVars, writerVars, raceVars, stateVars, commitVars>>
    \/ SetMeta /\ UNCHANGED <<replVars, consulVars, replayVars, viewVars, flowVars, exprVars, buildVars, writerVars, raceVars, stateVars, commitVars>>
    \/ Publish /\ UNCHANGED <<replVars, consulVars, replayVars, viewVars, flowVars, exprVars, buildVars, writerVars, raceVars, stateVars, commitVars>>
    \/ TreeInsert(<<Unbounded, Unbounded>>) /\ UNCHANGED <<replVars, consulVars, replayVars, viewVars, flowVars, exprVars, buildVars, writerVars, raceVars, stateVars, commitVars>>
    \/ DropWriter /\ UNCHANGED <<replVars, consulVars, replayVars, viewVars, flowVars, exprVars, buildVars, writerVars, raceVars, stateVars, commitVars>>
    \/ \E k \in KeySpace : meta_get_and(k) /\ UNCHANGED <<replVars, consulVars, replayVars, viewVars, flowVars, exprVars, buildVars, writerVars, raceVars, stateVars, commitVars>>
    \/ \E r \in Ranges : meta_get_range_and(r) /\ UNCHANGED <<replVars, consulVars, replayVars, viewVars, flowVars, exprVars, buildVars, writerVars, raceVars, stateVars, commitVars>>
    \/ RangeReturn /\ UNCHANGED <<replVars, consulVars, replayVars, viewVars, flowVars, exprVars, buildVars, writerVars, raceVars, stateVars, commitVars>>

SpecSnapshot == Init /\ [][NextSnapshot]_vars

----------------------------------------------------------------------------
(* The specification of the view c = union(a, b)                            *)

NextView ==
    \/ \E t \in Bases, r \in ViewRows : insert(t, r) /\ UNCHANGED <<replVars, consulVars, replayVars, readerVars, flowVars, exprVars, buildVars, writerVars, raceVars, stateVars, commitVars>>
    \/ \E t \in Bases, k \in Ids : delete(t, k) /\ UNCHANGED <<replVars, consulVars, replayVars, readerVars, flowVars, exprVars, buildVars, writerVars, raceVars, stateVars, commitVars>>
    \/ \E k \in Ids : cq_lookup(k) /\ UNCHANGED <<replVars, consulVars, replayVars, readerVars, flowVars, exprVars, buildVars, writerVars, raceVars, stateVars, commitVars>>
    \/ BaseTableLookup /\ UNCHANGED <<replVars, consulVars, replayVars, readerVars, flowVars, exprVars, buildVars, writerVars, raceVars, stateVars, commitVars>>
    \/ ReaderReceive /\ UNCHANGED <<replVars, consulVars, replayVars, readerVars, flowVars, exprVars, buildVars, writerVars, raceVars, stateVars, commitVars>>

SpecView == Init /\ [][NextView]_vars

----------------------------------------------------------------------------
(* The Blender's specification                                              *)

NextFlow ==
    \/ start_migration /\ UNCHANGED <<replVars, consulVars, replayVars, readerVars, viewVars, exprVars, buildVars, writerVars, raceVars, stateVars, commitVars>>
    \/ \E parents \in SUBSET (1..(MaxNodes + 1)) :
          add_ingredient(parents) /\ UNCHANGED <<replVars, consulVars, replayVars, readerVars, viewVars, exprVars, buildVars, writerVars, raceVars, stateVars, commitVars>>
    \/ add_transactional_base /\ UNCHANGED <<replVars, consulVars, replayVars, readerVars, viewVars, exprVars, buildVars, writerVars, raceVars, stateVars, commitVars>>
    \/ \E n \in 1..(MaxNodes + 1) :
          add_column(n) /\ UNCHANGED <<replVars, consulVars, replayVars, readerVars, viewVars, exprVars, buildVars, writerVars, raceVars, stateVars, commitVars>>
    \/ \E n \in 1..(MaxNodes + 1), c \in 0..(MaxFields - 1) :
          drop_column(n, c) /\ UNCHANGED <<replVars, consulVars, replayVars, readerVars, viewVars, exprVars, buildVars, writerVars, raceVars, stateVars, commitVars>>
    \/ \E s, d \in 1..(MaxNodes + 1) :
          materialize(s, d) /\ UNCHANGED <<replVars, consulVars, replayVars, readerVars, viewVars, exprVars, buildVars, writerVars, raceVars, stateVars, commitVars>>
    \/ \E n \in 1..(MaxNodes + 1) :
          maintain(n) /\ UNCHANGED <<replVars, consulVars, replayVars, readerVars, viewVars, exprVars, buildVars, writerVars, raceVars, stateVars, commitVars>>
    \/ \E n \in 1..(MaxNodes + 1) :
          memcached_hook(n) /\ UNCHANGED <<replVars, consulVars, replayVars, readerVars, viewVars, exprVars, buildVars, writerVars, raceVars, stateVars, commitVars>>
    \/ commit /\ UNCHANGED <<replVars, consulVars, replayVars, readerVars, viewVars, exprVars, buildVars, writerVars, raceVars, stateVars, commitVars>>
    \/ drop_migration /\ UNCHANGED <<replVars, consulVars, replayVars, readerVars, viewVars, exprVars, buildVars, writerVars, raceVars, stateVars, commitVars>>
    \/ \E n \in 1..(MaxNodes + 1) :
          mark_dropped(n) /\ UNCHANGED <<replVars, consulVars, replayVars, readerVars, viewVars, exprVars, buildVars, writerVars, raceVars, stateVars, commitVars>>

SpecFlow == Init /\ [][NextFlow]_vars

----------------------------------------------------------------------------
(* The specification of a projection's expression                           *)

NextEval ==
    \E e \in Expressions, rec \in Records :
        Project(e, rec) /\ UNCHANGED <<replVars, consulVars, replayVars, readerVars, viewVars, flowVars, buildVars, writerVars, raceVars, stateVars, commitVars>>

SpecEval == Init /\ [][NextEval]_vars

----------------------------------------------------------------------------
(* The specification of the query compiler's calls                          *)

NextBuild ==
    \E name \in FunctionNames, args \in ArgLists :
        BuildCall(name, args)
        /\ UNCHANGED <<replVars, consulVars, replayVars, readerVars, viewVars, flowVars, exprVars, writerVars, raceVars, stateVars, commitVars>>

SpecBuild == Init /\ [][NextBuild]_vars

----------------------------------------------------------------------------
(* The specification of a query's answer                                    *)

NextWriter ==
    \/ \E bin \in BOOLEAN : NewWriter(bin) /\ UNCHANGED <<replVars, consulVars, replayVars, readerVars, viewVars, flowVars, exprVars, buildVars, raceVars, stateVars, commitVars>>
    \/ \E ncols \in 0..MaxColumns : start(ncols) /\ UNCHANGED <<replVars, consulVars, replayVars, readerVars, viewVars, flowVars, exprVars, buildVars, raceVars, stateVars, commitVars>>
    \/ \E status_flags \in StatusInputs : complete_one(1, status_flags) /\ UNCHANGED <<replVars, consulVars, replayVars, readerVars, viewVars, flowVars, exprVars, buildVars, raceVars, stateVars, commitVars>>
    \/ \E status_flags \in StatusInputs : completed(1, status_flags) /\ UNCHANGED <<replVars, consulVars, replayVars, readerVars, viewVars, flowVars, exprVars, buildVars, raceVars, stateVars, commitVars>>
    \/ error /\ UNCHANGED <<replVars, consulVars, replayVars, readerVars, viewVars, flowVars, exprVars, buildVars, raceVars, stateVars, commitVars>>
    \/ no_more_results /\ UNCHANGED <<replVars, consulVars, replayVars, readerVars, viewVars, flowVars, exprVars, buildVars, raceVars, stateVars, commitVars>>
    \/ DropQueryResultWriter /\ UNCHANGED <<replVars, consulVars, replayVars, readerVars, viewVars, flowVars, exprVars, buildVars, raceVars, stateVars, commitVars>>
    \/ write_col /\ UNCHANGED <<replVars, consulVars, replayVars, readerVars, viewVars, flowVars, exprVars, buildVars, raceVars, stateVars, commitVars>>
    \/ end_row /\ UNCHANGED <<replVars, consulVars, replayVars, readerVars, viewVars, flowVars, exprVars, buildVars, raceVars, stateVars, commitVars>>
    \/ \E n \in 1..(MaxColumns + MaxSurplus) : write_row(n) /\ UNCHANGED <<replVars, consulVars, replayVars, readerVars, viewVars, flowVars, exprVars, buildVars, raceVars, stateVars, commitVars>>
    \/ \E status_flags \in StatusInputs \ {NoFlags} : set_status_flags(status_flags) /\ UNCHANGED <<replVars, consulVars, replayVars, readerVars, viewVars, flowVars, exprVars, buildVars, raceVars, stateVars, commitVars>>
    \/ finish_one /\ UNCHANGED <<replVars, consulVars, replayVars, readerVars, viewVars, flowVars, exprVars, buildVars, raceVars, stateVars, commitVars>>
    \/ finish /\ UNCHANGED <<replVars, consulVars, replayVars, readerVars, viewVars, flowVars, exprVars, buildVars, raceVars, stateVars, commitVars>>
    \/ DropRowWriter /\ UNCHANGED <<replVars, consulVars, replayVars, readerVars, viewVars, flowVars, exprVars, buildVars, raceVars, stateVars, commitVars>>

SpecWriter == Init /\ [][NextWriter]_vars

----------------------------------------------------------------------------
(* The specification of leader discovery by concurrent tasks                *)

NextRace ==
    \/ \E a \in Authorities : init(a) /\ UNCHANGED raceVars /\ UNCHANGED <<replVars, replayVars, readerVars, viewVars, flowVars, exprVars, buildVars, writerVars, stateVars, commitVars>>
    \/ \E a \in Authorities : BecomeLeaderAcquire(a) /\ UNCHANGED raceVars /\ UNCHANGED <<replVars, replayVars, readerVars, viewVars, flowVars, exprVars, buildVars, writerVars, stateVars, commitVars>>
    \/ \E a \in Authorities : BecomeLeaderReturn(a) /\ UNCHANGED raceVars /\ UNCHANGED <<replVars, replayVars, readerVars, viewVars, flowVars, exprVars, buildVars, writerVars, stateVars, commitVars>>
    \/ \E a \in Authorities : surrender_leadership(a) /\ UNCHANGED raceVars /\ UNCHANGED <<replVars, replayVars, readerVars, viewVars, flowVars, exprVars, buildVars, writerVars, stateVars, commitVars>>
    \/ \E a \in Observers : TryGetLeaderGet(a) /\ UNCHANGED <<replVars, replayVars, readerVars, viewVars, flowVars, exprVars, buildVars, writerVars, stateVars, commitVars>>
    \/ \E a \in Observers : \E call \in pendingGets[a] : TryGetLeaderReturn(a, call) /\ UNCHANGED <<replVars, replayVars, readerVars, viewVars, flowVars, exprVars, buildVars, writerVars, stateVars, commitVars>>

SpecRace == Init /\ [][NextRace]_vars

----------------------------------------------------------------------------
(* The specification of the controller state                                *)

NextState ==
    \/ \E d \in Deployments, f \in Closures : update_controller_state(d, f) /\ UNCHANGED <<replVars, consulVars, replayVars, readerVars, viewVars, flowVars, exprVars, buildVars, writerVars, raceVars, commitVars>>
    \/ \E d \in Deployments : ReadModifyWriteLoop(d) /\ UNCHANGED <<replVars, consulVars, replayVars, readerVars, viewVars, flowVars, exprVars, buildVars, writerVars, raceVars, commitVars>>
    \/ \E d \in Deployments : ReadModifyWritePut(d) /\ UNCHANGED <<replVars, consulVars, replayVars, readerVars, viewVars, flowVars, exprVars, buildVars, writerVars, raceVars, commitVars>>
    \/ \E d \in Deployments : TryReadState(d) /\ UNCHANGED <<replVars, consulVars, replayVars, readerVars, viewVars, flowVars, exprVars, buildVars, writerVars, raceVars, commitVars>>

SpecState == Init /\ [][NextState]_vars

----------------------------------------------------------------------------
(* The specification of a commit with column changes                        *)

NextCommit ==
    \/ AddNewBase /\ UNCHANGED <<replVars, consulVars, replayVars, readerVars, viewVars, flowVars, exprVars, buildVars, writerVars, raceVars, stateVars>>
    \/ \E node \in CommittedNodes \cup {NewBase} : RequestAddColumn(node) /\ UNCHANGED <<replVars, consulVars, replayVars, readerVars, viewVars, flowVars, exprVars, buildVars, writerVars, raceVars, stateVars>>
    \/ \E node \in CommittedNodes \cup {NewBase}, column \in 0..MaxFields :
          RequestDropColumn(node, column) /\ UNCHANGED <<replVars, consulVars, replayVars, readerVars, viewVars, flowVars, exprVars, buildVars, writerVars, raceVars, stateVars>>
    \/ CommitBoot /\ UNCHANGED <<replVars, consulVars, replayVars, readerVars, viewVars, flowVars, exprVars, buildVars, writerVars, raceVars, stateVars>>
    \/ CommitInform /\ UNCHANGED <<replVars, consulVars, replayVars, readerVars, viewVars, flowVars, exprVars, buildVars, writerVars, raceVars, stateVars>>
    \/ CommitSend /\ UNCHANGED <<replVars, consulVars, replayVars, readerVars, viewVars, flowVars, exprVars, buildVars, writerVars, raceVars, stateVars>>
    \/ \E domain \in CommitDomains : DomainHandlePacket(domain) /\ UNCHANGED <<replVars, consulVars, replayVars, readerVars, viewVars, flowVars, exprVars, buildVars, writerVars, raceVars, stateVars>>
    \/ CommitWaitForAck /\ UNCHANGED <<replVars, consulVars, replayVars, readerVars, viewVars, flowVars, exprVars, buildVars, writerVars, raceVars, stateVars>>
    \/ CommitConnect /\ UNCHANGED <<replVars, consulVars, replayVars, readerVars, viewVars, flowVars, exprVars, buildVars, writerVars, raceVars, stateVars>>
    \/ CommitInitialize /\ UNCHANGED <<replVars, consulVars, replayVars, readerVars, viewVars, flowVars, exprVars, buildVars, writerVars, raceVars, stateVars>>

SpecCommit == Init /\ [][NextCommit]_vars

----------------------------------------------------------------------------
(* Claims about the replay engine                                           *)

\* the ReplayRequest and Replay packets of a fingerprint that are under way
Outstanding(fp) ==
    Cardinality({i \in DOMAIN reqQ : <<reqQ[i].tag, reqQ[i].key>> = fp})
    + Cardinality({i \in DOMAIN pathQ :
                     pathQ[i].type = "Replay" /\ <<pathQ[i].tag, pathQ[i].key>> = fp})

\* the callers parked on key k
Parked(k) == {c \in Callers : status[c] = "waiting" /\ lookupKey[c] = k}

\* the live updates of key k still on the path's edge, in order
RECURSIVE InTransit(_, _)
InTransit(q, k) ==
    IF q = <<>> THEN <<>>
    ELSE (IF Head(q).type = "Regular" /\ Head(q).key = k THEN Head(q).rows ELSE <<>>)
         \o InTransit(Tail(q), k)

\* C2: while a replay of a (Tag, key) is in flight exactly one ReplayRequest has
\* been emitted for it, whatever the number of lookups that missed on it; every
\* such miss is a waiter of the in-flight entry, a miss onto an existing entry
\* emits nothing, and the replay's completion fulfils every waiter.
C2_OneReplayPerFingerprint ==
    [][\A k \in Keys :
         LET fp == <<Tag, k>> IN
         /\ emitted'[fp] = filled'[fp] + (IF in_flight'[fp].present THEN 1 ELSE 0)
         /\ Outstanding(fp)' = (IF in_flight'[fp].present THEN 1 ELSE 0)
         /\ Parked(k)' = in_flight'[fp].waiters
         /\ (in_flight[fp].present /\ in_flight'[fp].present) => emitted'[fp] = emitted[fp]
         /\ (in_flight[fp].present /\ ~in_flight'[fp].present) =>
               \A c \in in_flight[fp].waiters : status'[c] = "fulfilled"]_vars

C2_Witness ==
    \E k \in Keys :
        /\ emitted[<<Tag, k>>] = 1 /\ filled[<<Tag, k>>] = 1
        /\ \A c \in Callers : status[c] = "fulfilled" /\ lookupKey[c] = k

\* C3: the updates a node has applied for a key it holds are exactly the deltas
\* a fully materialized node would have observed: every update of the key the
\* source has applied and the path has delivered, once each and in order.
C3_AppliedEqualsFullNode ==
    \A k \in covered : nodeRows[k] \o InTransit(pathQ, k) = srcRows[k]

----------------------------------------------------------------------------
(* Claims about the authority                                               *)

\* authority a's become_leader call returns `result` in this step
Returns(a, result) == ret'[a] = result /\ (ret[a] # result \/ pc[a] # pc'[a])

\* the sessions that hold the leader lock are live, and there is at most one
OneLiveHolder ==
    /\ Cardinality(leaderKey.holders) <= 1
    /\ \A a \in leaderKey.holders : session[a] = "live"

\* C1 as claimed: at most one authority holds the leader key, and become_leader
\* returns Some exactly when the caller's session holds the leader lock as the
\* call completes, None when another live session holds it.
C1_SomeIffHolderAtCompletion ==
    [][/\ OneLiveHolder'
       /\ \A a \in Authorities :
            /\ Returns(a, "Some") => a \in leaderKey'.holders
            /\ (Returns(a, "None") \/ Returns(a, "Err")) => a \notin leaderKey'.holders
            /\ Returns(a, "None") =>
                 \E b \in Authorities \ {a} :
                    b \in leaderKey'.holders /\ session'[b] = "live"]_vars

\* C1 as amended: at most one authority holds the leader key, and become_leader
\* returns Some exactly when the caller's session was granted the leader lock
\* by its acquire request (no other session held it then); it returns None
\* when another live session holds the lock.
C1_SomeIffLockGranted ==
    [][/\ OneLiveHolder'
       /\ \A a \in Authorities :
            /\ (pc[a] = "idle" /\ pc'[a] = "acquired") =>
                 /\ leaderKey.holders \subseteq {a}
                 /\ leaderKey'.holders = {a}
                 /\ leaderKey'.value = PayloadOf(a)
            /\ Returns(a, "Some") <=> (pc[a] = "acquired" /\ pc'[a] = "idle")
            /\ Returns(a, "None") =>
                 /\ UNCHANGED leaderKey
                 /\ a \notin leaderKey.holders
                 /\ \E b \in Authorities \ {a} :
                      b \in leaderKey.holders /\ session[b] = "live"]_vars

C1_Witness ==
    \E a, b \in Authorities :
        /\ a # b
        /\ ret[a] = "Some" /\ pc[a] = "idle" /\ leaderKey.holders = {a}
        /\ ret[b] = "None"

----------------------------------------------------------------------------
(* Claims about the replicator                                              *)

\* the last step was handle_action on a row-change event
HandledTableAction == last.op = "handle" /\ last.kind = "TableAction"
\* the last step was handle_action on a DDL event
HandledSchemaChange == last.op = "handle" /\ last.kind = "SchemaChange"
\* the last step sent the event's batch to its table
SentToTable == last.outcome \in {"applied", "applied_then_failed", "failed"}
\* the last step was a start of the replicator that ran the snapshot phase
StartedWithSnapshot ==
    last.op = "start" /\ last.kind \in {"snapshot", "snapshot_failed"}
\* the stored table offsets the controller reported at the last start
ReportedTableOffsets == {last.ro.tables[t] : t \in DOMAIN last.ro.tables} \ {None}

\* C4: a TableAction at offset pos for a table whose stored offset is o is
\* skipped whenever pos <= o, the case pos = o included.
C4_SkippedAtOrBeforeOffset ==
    (HandledTableAction /\ last.off # None /\ last.pos <= last.off)
        => last.outcome = "skipped"

\* C5: no row-change event is in a table more than once, whatever restarts
\* happened: an event applied by the snapshot or by streaming is not applied again.
C5_NoEventAppliedTwice ==
    \A t \in Tables : \A p \in Pos : rows[t][p] <= 1

\* C6: handling an action never decreases the offset recorded for the schema
\* or for a table.
C6_OffsetsNeverDecrease ==
    [][(phase = "streaming" /\ position' = position + 1) =>
         /\ replication_offsets'.schema >= replication_offsets.schema
         /\ \A t \in DOMAIN replication_offsets.tables :
               /\ t \in DOMAIN replication_offsets'.tables
               /\ replication_offsets'.tables[t] >= replication_offsets.tables[t]]_vars

\* C7: a row-change event delivered for an existing table at an offset after the
\* table's stored offset is not dropped while replication moves on: once the
\* table's stored offset has passed the event's offset (from then on the event
\* would be skipped), the event's rows are in the table.
C7_DeliveredEventApplied ==
    \A d \in delivered :
        noriaTables[d[1]] > d[2] => rows[d[1]][d[2]] >= 1

\* C8: streaming starts at the minimum of the stored per-table offsets, so that
\* every row-change event after a table's own stored offset is after the position
\* streaming connects at, and is delivered.
C8_EventsAfterTableOffsetDelivered ==
    (last.op = "start" /\ last.outcome = "streaming") =>
        \A t \in DOMAIN last.ro.tables : \A p \in RowEventsUpTo(t, Len(binlog)) :
            (last.ro.tables[t] # None /\ p > last.ro.tables[t]) => p > last.pos

\* C9 as claimed: the snapshot phase runs only when no table has a stored offset.
C9_SnapshotOnlyWithoutOffsets ==
    StartedWithSnapshot => ReportedTableOffsets = {}

\* C9 as amended: the snapshot phase runs exactly when the schema or at least one
\* table has no stored offset.
C9_SnapshotIffOffsetMissing ==
    last.op = "start" =>
        (StartedWithSnapshot <=> None \in AllOffsets(last.ro))

C9_Witness ==
    /\ StartedWithSnapshot
    /\ last.outcome = "streaming"
    /\ ReportedTableOffsets # {}

C11_BatchThenTimestampThenOffset ==
    [][(phase = "streaming" /\ position' = position + 1 /\ last'.kind = "TableAction") =>
         LET t == last'.table
             p == last'.pos
             batchApplied == rows'[t][p] = rows[t][p] + 1
         IN
         /\ rows' # rows =>
              /\ batchApplied
              /\ last'.batch # <<>>
              /\ last'.batch[Len(last'.batch)] = SetReplicationOffset(p)
              /\ noriaTables'[t] = p
         /\ timestamps' # timestamps =>
              /\ last'.txid
              /\ batchApplied
              /\ timestamps' = timestamps \cup {<<t, p>>}
         /\ replication_offsets' # replication_offsets =>
              /\ batchApplied
              /\ last'.txid => <<t, p>> \in timestamps'
              /\ replication_offsets' = InsertTable(replication_offsets, t, p)
         /\ last'.outcome = "applied" =>
              /\ batchApplied
              /\ replication_offsets'.tables[t] = p]_vars

C11_Witness ==
    /\ HandledTableAction
    /\ last.txid
    /\ last.outcome = "applied"
    /\ <<last.table, last.pos>> \in timestamps
    /\ replication_offsets.tables[last.table] = last.pos

\* C12: when next_action fails because the upstream connection is lost, the
\* main loop does not end: the replicator keeps streaming from its position.
C12_StreamingSurvivesConnectorError ==
    [][(phase = "streaming" /\ last'.op = "stop") =>
          (phase' = "streaming" /\ position' = position)]_vars


----------------------------------------------------------------------------
(* Claims about leader hand-over and discovery                              *)

\* authority a's call op answers in this step
Answers(a, op) == reply' # reply /\ reply'.by = a /\ reply'.op = op

\* authority a's become_leader sends its acquire in this step
Acquires(a) == pc[a] = "idle" /\ (pc'[a] # pc[a] \/ ret'[a] # ret[a])

\* C13: when the leader's session dies the leader key disappears; the dead
\* node is no longer reported as leader by get_leader or try_get_leader; a
\* become_leader by another (live) authority that follows succeeds, and the
\* payload get_leader returns afterwards is that authority's.
C13_DeadLeaderReplaced ==
    [][\A a \in Authorities :
         /\ (session[a] = "live" /\ session'[a] = "dead" /\ a \in leaderKey.holders) =>
              /\ ~leaderKey'.exists
              /\ leaderKey'.holders = {}
         /\ (session[a] = "dead" /\ reply' # reply
               /\ reply'.result \in {"Ok", "NewLeader"}
               /\ reply'.op \in {"get_leader", "try_get_leader"}) =>
              reply'.payload # PayloadOf(a)
         /\ (Acquires(a) /\ session[a] = "live" /\ ~leaderKey.exists) =>
              /\ pc'[a] = "acquired"
              /\ leaderKey'.holders = {a}
              /\ leaderKey'.value = PayloadOf(a)
         /\ (reply' # reply /\ reply'.op = "get_leader" /\ reply'.result = "Ok"
               /\ leaderKey.holders = {a}) =>
              reply'.payload = PayloadOf(a)]_vars

\* a leader died, another authority took the key over and get_leader
\* answered with the new leader's payload
C13_Witness ==
    \E a, b \in Authorities :
       /\ a # b
       /\ session[a] = "dead" /\ ret[a] = "Some"
       /\ leaderKey.holders = {b} /\ ret[b] = "Some"
       /\ leaderKey.index = controller_index[a] + 2
       /\ reply.op = "get_leader" /\ reply.result = "Ok"
       /\ reply.payload = PayloadOf(b)

\* C14: surrender_leadership by the current leader releases the leader lock
\* and keeps the caller's session and its worker key as they are, after which
\* another authority's become_leader succeeds; surrender_leadership by an
\* authority that does not hold the lock changes nothing.
C14_SurrenderKeepsSession ==
    [][\A a \in Authorities :
         /\ (Answers(a, "surrender_leadership") /\ session[a] = "live"
               /\ a \in leaderKey.holders) =>
              /\ leaderKey'.holders = {}
              /\ UNCHANGED <<session, workerKeys, controller_index>>
         /\ (session'[a] = "live" /\ a \in leaderKey.holders /\ a \notin leaderKey'.holders) =>
              /\ reply'.by = a /\ reply'.op = "surrender_leadership"
              /\ UNCHANGED <<session, workerKeys>>
         /\ (Answers(a, "surrender_leadership") /\ a \notin leaderKey.holders) =>
              UNCHANGED <<session, leaderKey, raftIndex, workerKeys, controller_index, pc, ret>>
         /\ (Acquires(a) /\ session[a] = "live" /\ leaderKey.exists /\ leaderKey.holders = {}) =>
              /\ pc'[a] = "acquired"
              /\ leaderKey'.holders = {a}
              /\ leaderKey'.value = PayloadOf(a)]_vars

\* a registered worker that was leader surrendered and is still alive and
\* registered; another authority then became leader
C14_Witness ==
    \E a, b \in Authorities :
       /\ a # b
       /\ session[a] = "live" /\ ret[a] = "Some" /\ workerKeys[a] # NoWorker
       /\ leaderKey.holders = {b} /\ ret[b] = "Some" /\ pc[b] = "idle"

\* C15: after become_leader(p) succeeded, get_leader called through any
\* authority returns p for as long as that leader holds the lock; a
\* become_leader by another authority that returns None leaves the stored
\* payload unchanged.
C15_LeaderPayloadStable ==
    [][\A b \in Authorities :
         /\ (leaderKey.holders = {b} /\ reply' # reply /\ reply'.op = "get_leader") =>
              /\ reply'.result = "Ok"
              /\ reply'.payload = PayloadOf(b)
         /\ (leaderKey.holders = {b} /\ leaderKey'.holders = {b}) =>
              /\ leaderKey.value = PayloadOf(b)
              /\ leaderKey'.value = PayloadOf(b)
         /\ \A a \in Authorities \ {b} :
              (leaderKey.holders = {b} /\ Acquires(a)) =>
                 /\ ret'[a] \in {"None", "Err"}
                 /\ leaderKey' = leaderKey]_vars

\* an authority whose become_leader returned None reads the leader's payload
C15_Witness ==
    \E a, b \in Authorities :
       /\ a # b
       /\ leaderKey.holders = {b} /\ ret[b] = "Some"
       /\ ret[a] = "None"
       /\ reply = Reply(a, "get_leader", "Ok", PayloadOf(b))

\* C16: get_leader returns only when a leader exists, and what it returns is
\* the payload of the authority that holds the leader lock at that moment,
\* never that of a node that surrendered or whose session died.
C16_GetLeaderReturnsHolder ==
    [][(reply' # reply /\ reply'.op = "get_leader") =>
          \E b \in Authorities :
             /\ leaderKey.holders = {b}
             /\ session[b] = "live"
             /\ reply'.result = "Ok"
             /\ reply'.payload = PayloadOf(b)]_vars

\* C17: try_get_leader returns NoLeader when no leader key exists,
\* NewLeader(payload) when the key's modification index is greater than the
\* index this authority last observed (or it observed none), and Unchanged
\* otherwise; an authority that just became leader gets Unchanged, and a
\* modification index is reported as NewLeader to an observer once.
C17_TryGetLeaderByIndex ==
    [][\A a \in Authorities :
         Answers(a, "try_get_leader") =>
            /\ IF ~leaderKey.exists
               THEN reply'.result = "NoLeader"
               ELSE IF controller_index[a] = None \/ leaderKey.index > controller_index[a]
                    THEN /\ reply'.result = "NewLeader"
                         /\ reply'.payload = leaderKey.value
                         /\ \E b \in Authorities : reply'.payload = PayloadOf(b)
                         /\ controller_index'[a] = leaderKey.index
                    ELSE reply'.result = "Unchanged"
            /\ (leaderKey.holders = {a} /\ ret[a] = "Some" /\ pc[a] = "idle") =>
                  reply'.result = "Unchanged"]_vars


----------------------------------------------------------------------------
(* Claims about workers and read_modify_write                               *)

\* C19: get_workers returns exactly the ids of the workers that registered
\* and whose sessions are alive: a registration adds the caller's session id
\* with its descriptor, which worker_data returns; the worker of a dead
\* session is gone; worker_heartbeat answers Alive for a live session and
\* Failed for a dead one.
C19_WorkersAreLiveRegistrations ==
    [][\A a \in Authorities :
         /\ workerKeys[a] # NoWorker => session[a] = "live"
         /\ workerKeys'[a] # workerKeys[a] =>
              \/ /\ session'[a] = "dead"
                 /\ workerKeys'[a] = NoWorker
              \/ /\ session[a] = "live" /\ session'[a] = "live"
                 /\ workerKeys'[a] \in Descriptors
                 /\ reply' = Reply(a, "register_worker", "Some", a)
                 /\ \A b \in Authorities \ {a} : workerKeys'[b] = workerKeys[b]
         /\ (session[a] = "live" /\ session'[a] = "dead") => workerKeys'[a] = NoWorker
         /\ (Answers(a, "register_worker") /\ session[a] = "live") =>
              /\ reply'.result = "Some" /\ reply'.payload = a
              /\ workerKeys'[a] \in Descriptors
         /\ Answers(a, "get_workers") =>
              /\ reply'.result = "Ok"
              /\ reply'.ids = {w \in Authorities : workerKeys[w] # NoWorker}
              /\ \A w \in reply'.ids : session[w] = "live"
         /\ Answers(a, "worker_data") =>
              /\ reply'.result = "Ok"
              /\ reply'.data = {<<w, workerKeys[w]>> :
                                  w \in {x \in reply'.ids : workerKeys[x] # NoWorker}}
         /\ Answers(a, "worker_heartbeat") =>
              /\ session[reply'.payload] = "live" => reply'.result = "Alive"
              /\ session[reply'.payload] # "live" => reply'.result = "Failed"]_vars

\* one registered worker died, the other is still registered, and get_workers
\* answered with the survivor only
C19_Witness ==
    \E a, b \in Authorities :
       /\ a # b
       /\ session[a] = "dead" /\ workerKeys[a] = NoWorker
       /\ session[b] = "live" /\ workerKeys[b] \in Descriptors
       /\ reply.op = "get_workers" /\ reply.ids = {b}

\* C18: read_modify_write writes the new value only if the value at the path
\* is still the one that was read and passed to f, so concurrent calls lose no
\* update: once every call has returned, the counter each call increments
\* equals the number of calls that returned.
C18_NoLostUpdate ==
    (\A a \in Authorities : rmwPc[a] = "idle") =>
       stateKey = (IF rmwDone = 0 THEN None ELSE rmwDone)


----------------------------------------------------------------------------
(* Claims about the reader's range lookup                                   *)

\* a range lookup returns in this step
RangeReturns == rangeResult' # rangeResult /\ rangeResult'.kind # "Entered"

\* the keys of the snapshot a lookup entered that lie inside its bounds
KeysInside(res) == {k \in res.map : Point(k) \in Interval(res.range)}

\* rows are the rows of exactly the keys in K, in key order
RowsOfKeysInOrder(rs, K) ==
    /\ Len(rs) = Cardinality(K)
    /\ \A i \in 1..Len(rs) : rs[i][1] \in K /\ rs[i] = Row(rs[i][1])
    /\ \A i, j \in 1..Len(rs) : i < j => rs[i][1] < rs[j][1]

\* the lookup answers with rows of the right keys or with a miss without rows
RowsOrMiss(res) ==
    /\ res.kind = "Rows" => RowsOfKeysInOrder(res.rows, KeysInside(res))
    /\ res.kind = "Miss" => (res.rows = <<>> /\ ~(Interval(res.range) \subseteq tree))

\* C20 as claimed: a range lookup returns rows if and only if the whole
\* queried range is covered; the rows are exactly those of the stored keys
\* inside the bounds, in key order; when part of the range is uncovered it
\* returns a miss and no rows.
C20_RowsIffCovered ==
    [][RangeReturns =>
          /\ rangeResult'.kind = "Rows" <=> Interval(rangeResult'.range) \subseteq tree
          /\ rangeResult'.kind = "Miss" <=> ~(Interval(rangeResult'.range) \subseteq tree)
          /\ RowsOrMiss(rangeResult')]_vars

\* C20 as amended: a range lookup returns rows if and only if the whole
\* queried range is covered and the map can still be entered (its write handle
\* was not dropped); it returns a miss with no rows if and only if part of the
\* range is uncovered, and None (neither rows nor miss) for a covered range of
\* a map that cannot be entered. Rows are exactly those of the keys inside the
\* bounds that the published map held when the lookup entered it, in key order.
C20_RowsIffCoveredAndEntered ==
    /\ [][RangeReturns =>
          /\ rangeResult'.kind = "Rows" <=>
                (Interval(rangeResult'.range) \subseteq tree /\ ~destroyed)
          /\ rangeResult'.kind = "Miss" <=> ~(Interval(rangeResult'.range) \subseteq tree)
          /\ rangeResult'.kind = "None" <=>
                (Interval(rangeResult'.range) \subseteq tree /\ destroyed)
          /\ rangeResult'.kind = "None" => rangeResult'.rows = <<>>
          /\ RowsOrMiss(rangeResult')]_vars
    /\ [][(rangeResult' # rangeResult /\ rangeResult'.kind = "Entered") =>
             rangeResult'.map = stored]_vars

\* a lookup of a covered range returned the row of the key inside it while
\* another key is stored outside the range and part of the key space is uncovered
C20_Witness ==
    /\ rangeResult.kind = "Rows"
    /\ Len(rangeResult.rows) = 1
    /\ Interval(rangeResult.range) \subseteq tree
    /\ \E k \in stored : Point(k) \notin Interval(rangeResult.range)
    /\ \E p \in Positions : p \notin tree

\* the positions of the i-th interval of a miss
MissInterval(res, i) == res.diff[i][1]..res.diff[i][2]

----------------------------------------------------------------------------
(* Claims about the reader's snapshots                                      *)

\* a key lookup returns in this step
GetReturns == getResult' # getResult

\* C22: writes become visible to readers only at publish: the published map
\* changes only by taking over the writer's whole side, and every lookup
\* returns the contents of the published snapshot it entered, whatever the
\* writer has inserted since.
C22_VisibleOnlyAtPublish ==
    [][/\ stored' # stored => (stored' = written /\ written' = written)
       /\ GetReturns =>
            /\ getResult'.kind = "Some" <=> (~destroyed /\ getResult'.key \in stored)
            /\ getResult'.kind = "Absent" <=> (~destroyed /\ getResult'.key \notin stored)
            /\ getResult'.rows = IF getResult'.kind = "Some"
                                 THEN <<Row(getResult'.key)>> ELSE <<>>
       /\ (rangeResult' # rangeResult /\ rangeResult'.kind = "Entered") =>
            rangeResult'.map = stored
       /\ (RangeReturns /\ rangeResult'.kind = "Rows") =>
            /\ rangeResult.kind = "Entered"
            /\ rangeResult'.map = rangeResult.map
            /\ RowsOfKeysInOrder(rangeResult'.rows, KeysInside(rangeResult'))]_vars

\* a lookup of a key that the writer has inserted and not yet published
\* found the key absent
C22_Witness ==
    /\ ~destroyed
    /\ getResult.kind = "Absent"
    /\ getResult.key \in written \ stored
    /\ stored # {}

\* C23: the meta returned by a key lookup or a range lookup is the meta of the
\* published snapshot the returned rows were read from, also when a publish
\* happens during the lookup, and the metas one reader observes never
\* decrease.
C23_MetaOfSameSnapshot ==
    [][/\ (GetReturns /\ getResult'.kind # "None") =>
            /\ getResult'.meta = meta
            /\ getResult'.meta >= getResult.meta
            /\ rangeResult.kind = "Rows" => getResult'.meta >= rangeResult.meta
       /\ (RangeReturns /\ rangeResult'.kind = "Rows") =>
            /\ rangeResult'.meta = rangeResult'.mapMeta
            /\ rangeResult'.meta >= getResult.meta]_vars

----------------------------------------------------------------------------
(* Claims about the view c = union(a, b)                                    *)

\* the rows with first column k that base table tb holds in a or in b
PresentIn(tb, k) ==
    [r \in ViewRows |->
        (IF r[1] = k /\ tb["a"][k] = r[2] THEN 1 ELSE 0)
      + (IF r[1] = k /\ tb["b"][k] = r[2] THEN 1 ELSE 0)]

\* C24: once the inserts and deletes at a and b have propagated, a lookup of
\* key k in c returns exactly the rows with first column k that a or b holds
\* now, each as often as the two bases hold it: no row of another key, b's
\* row next to a's row of the same key, and after a delete at a only a's row
\* gone.
C24_UnionLookup ==
    /\ [](egressQ = <<>> => \A k \in cqFilled : cqRows[k] = PresentIn(tables, k))
    /\ [][cqResult' # cqResult =>
            cqResult'.rows = PresentIn(tables', cqResult'.key)]_vars

\* the test's last lookup: key 1 after a's row was deleted, with a's row of
\* key 2 still there and one base-table lookup made
C24_Witness ==
    /\ cqResult.key = 1
    /\ cqResult.rows = [r \in ViewRows |-> IF r = <<1, 4>> THEN 1 ELSE 0]
    /\ tables["a"] = [k \in Ids |-> IF k = 2 THEN 2 ELSE NoRow]
    /\ tables["b"][1] = 4
    /\ base_table_lookup_requests = 1
    /\ egressQ = <<>>

\* C25: a lookup of a key the reader has been filled with is answered from
\* the reader's state and makes no base-table lookup request, whatever was
\* written to the key since; a base-table lookup request is only ever made
\* for a key that is not filled.
C25_FilledKeyServedFromState ==
    [][/\ base_table_lookup_requests' # base_table_lookup_requests =>
            cqWaiting # NoKeyYet /\ cqWaiting \notin cqFilled
       /\ cqWaiting' # cqWaiting /\ cqWaiting' # NoKeyYet => cqWaiting' \notin cqFilled
       /\ cqResult' # cqResult /\ cqResult'.key \in cqFilled =>
            /\ cqResult'.rows = cqRows[cqResult'.key]
            /\ cqWaiting' = NoKeyYet
            /\ base_table_lookup_requests' = base_table_lookup_requests]_vars

\* key 1 was filled by the only base-table lookup and a later lookup returned
\* both rows the reader holds for it
C25_Witness ==
    /\ base_table_lookup_requests = 1
    /\ cqFilled = {1}
    /\ cqResult.key = 1
    /\ cqResult.rows = cqRows[1]
    /\ cqRows[1][<<1, 2>>] = 1
    /\ cqRows[1][<<1, 4>>] = 1
    /\ egressQ = <<>>

----------------------------------------------------------------------------
(* Claims about eviction                                                    *)

\* the sum an aggregate over the updates would hold
RECURSIVE SumOf(_)
SumOf(us) == IF us = <<>> THEN 0 ELSE Head(us) + SumOf(Tail(us))

\* C26: evicting a key uncovers it and drops its rows at the node, and the
\* replay that refills an evicted key leaves the node with the upstream
\* state of the key: the sum over the node's rows, with the updates still on
\* their way, is the sum over the source's rows, never a sum over a part of
\* them or over some of them twice.
C26_EvictedKeyRefilledFromUpstream ==
    [][\A k \in Keys :
         /\ (k \in covered /\ k \notin covered') => nodeRows'[k] = <<>>
         /\ (filled[<<Tag, k>>] >= 1 /\ filled'[<<Tag, k>>] = filled[<<Tag, k>>] + 1) =>
               /\ k \in covered'
               /\ SumOf(nodeRows'[k]) + SumOf(InTransit(pathQ', k)) = SumOf(srcRows'[k])]_vars

----------------------------------------------------------------------------
(* Claims about the Blender's graph                                         *)

\* the parents of node ni
Parents(ni) == {e[1] : e \in {x \in edges : x[2] = ni}}

Placed(ing) == {ni \in 1..Len(ing) : ing[ni].local # NoLocal}

\* C28: local indices are stable and unique within a domain: no two nodes of
\* one domain, dropped or not, have the same local index, and no step changes
\* the domain or the local index of a node that has one.
C28_LocalIndicesStableAndUnique ==
    /\ [](\A m, n \in Placed(ingredients) :
            (m # n /\ ingredients[m].domain = ingredients[n].domain) =>
                ingredients[m].local # ingredients[n].local)
    /\ [][\A n \in Placed(ingredients) :
            /\ ingredients'[n].local = ingredients[n].local
            /\ ingredients'[n].domain = ingredients[n].domain]_vars

\* C29: as long as a Migration is not committed, its operations and its being
\* dropped leave the Blender's graph, the columns of its bases and its
\* domains as they were.
C29_NoChangeUntilCommit ==
    [][(mig.active /\ migOp' # "commit") =>
          UNCHANGED <<ingredients, edges, materialized, ndomains, domains, domainFields>>]_vars

----------------------------------------------------------------------------
(* Claims about expression evaluation                                       *)

\* the expression coerces its operand to a type the operand cannot have
CoercionFails ==
    /\ expression.tag \in {"Cast", "Month"}
    /\ LET operand == eval(IF expression.tag = "Cast" THEN expression.expr ELSE expression.arg,
                           record)
       IN  /\ operand.ok
           /\ ~coerce_to(operand.val, IF expression.tag = "Cast" THEN expression.ty ELSE "Date").ok

\* C30: eval returns Ok for every expression and every record of the right
\* width, and NULL where an operand cannot be coerced to the type required.
C30_FailedCoercionIsNull ==
    evaluated # NotEvaluated =>
        /\ evaluated.ok
        /\ CoercionFails => evaluated.val = DNone

----------------------------------------------------------------------------
(* Claims about building calls                                              *)

\* the numbers of arguments a built-in function takes (lib.rs 20-33: the
\* variants' doc comments; round's precision is optional)
Accepts(name) ==
    CASE name = "convert_tz" -> {3}
      [] name \in {"ifnull", "timediff", "addtime"} -> {2}
      [] name \in {"dayofweek", "month"} -> {1}
      [] name = "round" -> {1, 2}
      [] OTHER -> {}

\* C31: from_name_and_args returns ArityError whenever a known built-in
\* function is given a number of arguments it does not take, too few or too
\* many, and returns the function only for a number of arguments it accepts.
C31_WrongArgumentCountIsArityError ==
    (built # NotBuilt /\ fname # "nosuch") =>
        (built = ArityError(fname) <=> Len(fargs) \notin Accepts(fname))

----------------------------------------------------------------------------
(* Claims about the result writers                                          *)

IsTerminator(p) == p.kind \in {"ok", "eof"}

\* the OK and EOF packets on the wire
Terminators == SelectSeq(wire, IsTerminator)

\* the query was answered through start / finish_one, complete_one and
\* no_more_results: the writer is still held, or was closed by
\* no_more_results
SentThrough ==
    \/ wphase \in {"query", "rows"}
    \/ wphase = "closed" /\ wop \in {"no_more_results", "finish", "completed"} /\ wret = "Ok"

\* C32: every resultset sent through one QueryResultWriter is terminated by
\* exactly one OK or EOF packet, in the order the resultsets were produced;
\* the terminator of every resultset but the last carries
\* SERVER_MORE_RESULTS_EXISTS, and the terminator written by no_more_results
\* does not.
C32_OneTerminatorPerResultset ==
    /\ [](SentThrough =>
            /\ Len(Terminators) = Len(produced) - (IF last_end = NoFinalizer THEN 0 ELSE 1)
            /\ \A i \in 1..Len(Terminators) :
                    /\ Terminators[i].kind = produced[i]
                    /\ i < Len(produced) =>
                           "SERVER_MORE_RESULTS_EXISTS" \in Terminators[i].status)
    /\ [][(/\ wop' \in {"no_more_results", "finish", "completed"}
           /\ wret' = "Ok"
           /\ Len(wire') > Len(wire)
           /\ IsTerminator(wire'[Len(wire')]))
          => "SERVER_MORE_RESULTS_EXISTS" \notin wire'[Len(wire')].status]_vars

\* C33: a RowWriter with declared columns emits a row packet only for a row
\* of exactly as many values as columns: write_col returns an error for a
\* value beyond the declared columns, end_row and a finish with a partly
\* written row return InvalidData when fewer values were written, and after
\* a successful end_row the column counter is 0.
C33_RowPacketOnlyForFullRow ==
    [][(wphase = "rows" /\ columns # 0) =>
          /\ (wop' = "write_col" /\ col >= columns) => wret' # "Ok"
          /\ (Len(wire') > Len(wire) /\ wire'[Len(wire) + 1].kind = "row") =>
                 wire'[Len(wire) + 1].n = columns
          /\ (wop' = "end_row" /\ col < columns) => (wret' = "InvalidData" /\ wire' = wire)
          /\ (wop' \in {"finish", "finish_one"} /\ col # 0 /\ col < columns) =>
                 (wret' = "InvalidData" /\ wire' = wire)
          /\ (wop' = "end_row" /\ wret' = "Ok") => col' = 0]_vars

----------------------------------------------------------------------------
(* Claims about leader discovery by concurrent tasks                        *)

\* C34: the controller index an authority keeps never decreases, whatever
\* the interleaving of the become_leader and try_get_leader calls made on
\* it, and no version of the leader key is reported as NewLeader twice by
\* the same authority.
C34_ControllerIndexNeverDecreases ==
    /\ [][\A a \in Authorities : controller_index'[a] >= controller_index[a]]_vars
    /\ [](\A a \in Authorities : \A i, j \in 1..Len(reported[a]) :
              reported[a][i] = reported[a][j] => i = j)

----------------------------------------------------------------------------
(* Claims about the controller state                                        *)

\* C35: when the closure returns Err(e), read_modify_write returns
\* Ok(Err(e)) after calling it once and leaves the stored value as it was;
\* it does not read again and call the closure again.
C35_ErrEndsReadModifyWrite ==
    \A d \in Deployments :
        rmwCall[d].modified = "Err" =>
            /\ rmwCall[d].pc = "idle"
            /\ rmwCall[d].calls = 1
            /\ callRet[d] = "Ok(Err(e))"

\* C36: the state update_controller_state wrote last is what try_read and
\* try_read_raw of STATE_KEY return to every authority of the deployment,
\* and to no authority of another deployment.
C36_StateReadBack ==
    /\ [][readRet' # readRet => readRet'.value = lastWritten'[readRet'.by]]_vars
    /\ [](\A d \in Deployments : \A key \in DOMAIN store :
              key = prefix_with_deployment(d, STATE_KEY) => store[key] = lastWritten[d])

----------------------------------------------------------------------------
(* Claims about a failed snapshot                                           *)

\* C37: when the initial snapshot fails start_inner_mysql returns the error
\* and never enters the streaming phase, whether or not some tables had
\* stored offsets; the binlog is connected to, the ready waiters notified
\* and main_loop run only without a snapshot or after a successful one.
C37_FailedSnapshotNeverStreams ==
    [][restarts' # restarts =>
          /\ last'.kind = "snapshot_failed" =>
                 (last'.outcome = "error" /\ phase' = "stopped")
          /\ phase' = "streaming" => last'.kind \in {"no_snapshot", "snapshot"}]_vars

----------------------------------------------------------------------------
(* Claims about a node's lifecycle                                          *)

\* C38: a node goes through its lifecycle in one direction only: a node that
\* has a domain keeps it, a taken node stays taken, no step changes the
\* Blender's copy of a taken node (its dropped mark aside), and the copy the
\* domain takes has the original's fields, domain and address.
C38_NodeLifecycleOneWay ==
    [][\A ni \in NodeIndices :
          /\ ingredients[ni].domain # NoDomain =>
                ingredients'[ni].domain = ingredients[ni].domain
          /\ ingredients[ni].handle = "Taken" =>
                /\ ingredients'[ni].handle = "Taken"
                /\ [ingredients'[ni] EXCEPT !.dropped = ingredients[ni].dropped]
                       = ingredients[ni]
          /\ (ingredients[ni].handle = "Owned" /\ ingredients'[ni].handle = "Taken") =>
                /\ domainFields'[ni].fields = ingredients'[ni].fields
                /\ domainFields'[ni].domain = ingredients'[ni].domain
                /\ domainFields'[ni].local = ingredients'[ni].local]_vars

----------------------------------------------------------------------------
(* Claims about column changes at commit                                    *)

IsSend(e) == e.ev = "send"
IsAck(e) == e.ev = "ack"

\* the changes of the events of log, in order
RECURSIVE ChangesOf(_)
ChangesOf(log) ==
    IF log = <<>> THEN <<>> ELSE <<Head(log).change>> \o ChangesOf(Tail(log))

\* the changes of cs whose base is in domain
RECURSIVE OwnedBy(_, _)
OwnedBy(cs, domain) ==
    IF cs = <<>> THEN <<>>
    ELSE (IF OwningDomain(Head(cs).node) = domain THEN <<Head(cs)>> ELSE <<>>)
         \o OwnedBy(Tail(cs), domain)

\* the events of the log before position p that are of kind ev
Before(p, ev) == {q \in 1..(p - 1) : commitLog[q].ev = ev}

\* C39: commit sends the requested column changes in the order of the
\* requests, each to the domain of its base and each after the domain has
\* acknowledged the one before, after the new domains were booted and the
\* existing ones informed and before the connections and the materializations
\* are set up; and no change is ever requested for a node the migration
\* added or for a node that is not a base.
C39_ColumnChangesInOrder ==
    LET sent == ChangesOf(SelectSeq(commitLog, IsSend))
        acked == ChangesOf(SelectSeq(commitLog, IsAck))
    IN
    /\ Len(sent) <= Len(changes)
    /\ sent = SubSeq(changes, 1, Len(sent))
    /\ \A domain \in CommitDomains :
          /\ applied[domain] \o inbox[domain] = OwnedBy(sent, domain)
          /\ Len(OwnedBy(acked, domain)) <= Len(applied[domain])
          /\ (applied[domain] # <<>> \/ inbox[domain] # <<>>) => domain \in booted
    /\ \A p \in 1..Len(commitLog) :
          /\ IsSend(commitLog[p]) =>
                /\ Cardinality(Before(p, "send")) = Cardinality(Before(p, "ack"))
                /\ Before(p, "boot") # {} /\ Before(p, "inform") # {}
                /\ Before(p, "connect") = {} /\ Before(p, "initialize") = {}
          /\ IsAck(commitLog[p]) =>
                /\ p > 1 /\ commitLog[p - 1] = Event("send", commitLog[p].change)
                /\ Before(p, "connect") = {} /\ Before(p, "initialize") = {}
          /\ commitLog[p].ev \in {"connect", "initialize"} =>
                (sent = changes /\ acked = changes)
    /\ \A i \in 1..Len(changes) :
          changes[i].node \notin cadded /\ changes[i].node \in {1, 2}

\* a committed migration that added a base in a new domain and changed the
\* columns of two bases in two domains
C39_Witness ==
    /\ commitPc = "done"
    /\ NewBase \in cadded
    /\ Len(changes) = 2
    /\ OwningDomain(changes[1].node) # OwningDomain(changes[2].node)
    /\ \A domain \in {0, 1} : Len(applied[domain]) = 1

====
